---- MODULE Spec2Model ----
(***************************************************************************)
(* ARONIA: frame codec and introductions (src/protocol.js), peer session   *)
(* (src/peer.js) and the node that admits peers and holds the sessions.    *)
(*                                                                         *)
(* Buffers are sequences of bytes (0..255), 1-indexed: the byte the source *)
(* addresses at offset o is element o + 1.  Strings are sequences of       *)
(* character codes.                                                        *)
(***************************************************************************)
EXTENDS Integers, Sequences, FiniteSets, TLC

(***************************************************************************)
(* src/types.js                                                            *)
(***************************************************************************)
CONTROL == 1
REQUEST == 2
RESPONSE == 3
EVENT == 4
STREAM_DATA == 5
STREAM_END == 6
INTRODUCE == 7

PROTOCOL_VERSION == 1
HEADER_SIZE == 52
SIGNATURE_SIZE == 64
PUBLIC_KEY_SIZE == 32

(***************************************************************************)
(* Bounds of the model.                                                    *)
(***************************************************************************)
\* the node issues up to MaxCalls requests and sees up to MaxStreams connections
MaxCalls == 1
MaxStreams == 3
\* trust paths of up to MaxPath entries are validated
MaxPath == 3
\* options.maxTrustDepth
maxTrustDepth == 3

\* the clock (Date.now()) runs over 0..MaxTime, in units of 30 000 ms
MaxTime == 2
\* request() is called at most MaxRequests times on the session
MaxRequests == 2
\* times the transport starts refusing writes (stream.write() answers false
\* on a stream that owes no 'drain')
MaxStalls == 1

(***************************************************************************)
(* Buffer primitives (bare-buffer).  A write of an out-of-range value      *)
(* throws RangeError: InRange is its guard.                                *)
(***************************************************************************)
Zeros(n) == [i \in 1..n |-> 0]

InRange(v, bytes) ==
  /\ v >= 0
  /\ \/ bytes = 1 /\ v <= 255
     \/ bytes = 2 /\ v <= 65535
     \/ bytes >= 4

writeUInt8(v) == <<v % 256>>

\* mutant: only the low byte is written
writeUInt16BE_lowByteOnly(v) == <<0, v % 256>>

writeUInt16BE(v) == <<(v \div 256) % 256, v % 256>>

writeUInt32BE(v) ==
  <<(v \div 16777216) % 256, (v \div 65536) % 256, (v \div 256) % 256, v % 256>>

\* the model's numbers stay below 2^31, so the upper four bytes are zero
writeBigUInt64BE(v) == Zeros(4) \o writeUInt32BE(v)

readUInt8(buffer, offset) == buffer[offset + 1]

readUInt16BE(buffer, offset) == buffer[offset + 1] * 256 + buffer[offset + 2]

readUInt32BE(buffer, offset) ==
  buffer[offset + 1] * 16777216 + buffer[offset + 2] * 65536
    + buffer[offset + 3] * 256 + buffer[offset + 4]

readBigUInt64BE(buffer, offset) ==
  (readUInt32BE(buffer, offset) * 65536) * 65536 + readUInt32BE(buffer, offset + 4)

\* buffer.subarray(start, end), both clamped to the buffer
subarray(buffer, start, end) ==
  LET e == IF end > Len(buffer) THEN Len(buffer) ELSE end
  IN  IF start >= e THEN <<>> ELSE SubSeq(buffer, start + 1, e)

\* buffer.toString('hex'): two hex digits (0..15) per byte
toHex(buffer) ==
  [i \in 1..(2 * Len(buffer)) |->
     IF i % 2 = 1 THEN buffer[(i + 1) \div 2] \div 16 ELSE buffer[i \div 2] % 16]

(***************************************************************************)
(* hypercore-crypto.  keyPair() gives a 32-byte public key and a 64-byte   *)
(* secret key (seed, then the public key).  sign/verify are modelled as an *)
(* ideal keyed tag of 64 bytes over the length and every byte of the data: *)
(* cell i sums the bytes at positions i, i + 64, ... and adds a key byte.  *)
(***************************************************************************)
\* the key pairs in play: ours, the session's remote peer's, a stranger's
OurKey == 1
RemoteKey == 2
StrangerKey == 3

publicKeyOf(k) == [i \in 1..PUBLIC_KEY_SIZE |-> (16 * k + i) % 256]

keyPair(k) ==
  [publicKey |-> publicKeyOf(k),
   secretKey |-> [i \in 1..32 |-> (k + 7 * i) % 256] \o publicKeyOf(k)]

\* the sum of the bytes of ext at positions i, i + 64, i + 128, ...
SumStride(ext, i) ==
  LET sum[j \in 1..(Len(ext) + SIGNATURE_SIZE)] ==
        IF j > Len(ext) THEN 0 ELSE ext[j] + sum[j + SIGNATURE_SIZE]
  IN  sum[i]

Tag(data, publicKey) ==
  LET ext == <<Len(data) % 256>> \o data
  IN  [i \in 1..SIGNATURE_SIZE |->
         (SumStride(ext, i) + publicKey[((i - 1) % PUBLIC_KEY_SIZE) + 1]) % 256]

sign(data, secretKey) == Tag(data, SubSeq(secretKey, 33, 64))

verify(data, signature, publicKey) ==
  /\ Len(signature) = SIGNATURE_SIZE
  /\ Len(publicKey) = PUBLIC_KEY_SIZE
  /\ signature = Tag(data, publicKey)

(***************************************************************************)
(* JSON.stringify / JSON.parse over the payload objects the protocol uses. *)
(* The text is a compact stand-in for JSON: an object is '{', a one-letter *)
(* shape tag, its fields separated by ',', and '}'.  Every such text is at *)
(* least 4 bytes long, as the JSON text of each of these objects is.  The  *)
(* empty object and null have their JSON texts, "{}" and "null".  Any      *)
(* other byte sequence is a SyntaxError.  Objects are records whose DOMAIN *)
(* is the set of own properties.                                           *)
(***************************************************************************)
LBRACE == 123
RBRACE == 125
COMMA == 44
DASH == 45
CH_h == 104
CH_c == 99
CH_q == 113
CH_r == 114
CH_e == 101
CH_i == 105
CH_EQ == 61
CH_BANG == 33
NullText == <<110, 117, 108, 108>>

IsDigit(c) == c >= 48 /\ c <= 57

\* decimal text of a natural number
Digits(n) ==
  LET text[k \in 0..n] ==
        IF k < 10 THEN <<48 + k>> ELSE text[k \div 10] \o <<48 + (k % 10)>>
  IN  text[n]

\* value of a decimal text, -1 when it is not one
ParseNat(text) ==
  LET value[k \in 0..Len(text)] ==
        IF k = 0 THEN 0
        ELSE IF value[k - 1] < 0 \/ ~IsDigit(text[k]) THEN -1
        ELSE 10 * value[k - 1] + (text[k] - 48)
  IN  IF Len(text) = 0 THEN -1 ELSE value[Len(text)]

\* first position >= from of character c in text, 0 when absent
IndexOf(text, c, from) ==
  IF \E i \in from..Len(text) : text[i] = c
    THEN CHOOSE i \in from..Len(text) :
           text[i] = c /\ \A j \in from..(i - 1) : text[j] # c
    ELSE 0

\* capability objects, method names and error messages that occur in payloads
CapsTable ==
  << [agent |-> "aronia", version |-> "0.1.0", accepts |-> <<"application/json">>],
     [agent |-> "test", version |-> "1.0", accepts |-> <<"json">>] >>
MethodTable == <<"ping", "echo">>
MessageTable == <<"method-not-found", "boom">>

TableIndex(table, v) == CHOOSE i \in 1..Len(table) : table[i] = v

\* the text of an array of hex strings: every entry is closed by '-'
JoinPath(path) ==
  LET text[k \in 0..Len(path)] ==
        IF k = 0 THEN <<>> ELSE text[k - 1] \o path[k] \o <<DASH>>
  IN  text[Len(path)]

JSONNull == [null |-> TRUE]
\* the object {}
EmptyObject == [x \in {} |-> 0]

JSONstringify(v) ==
  IF DOMAIN v = {} THEN <<LBRACE, RBRACE>>
  ELSE IF "null" \in DOMAIN v THEN NullText
  ELSE IF "type" \in DOMAIN v /\ v.type = "heartbeat"
    THEN <<LBRACE, CH_h>> \o Digits(v.timestamp) \o <<RBRACE>>
  ELSE IF "type" \in DOMAIN v
    THEN IF "data" \in DOMAIN v
           THEN <<LBRACE, CH_c, 48 + TableIndex(CapsTable, v.data), RBRACE>>
           ELSE <<LBRACE, CH_c, 48, RBRACE>>
  ELSE IF "trustPath" \in DOMAIN v
    THEN <<LBRACE, CH_i>> \o v.pubkey \o <<COMMA, 48 + v.alias, COMMA>>
           \o <<48 + TableIndex(CapsTable, v.capabilities), COMMA, 48 + v.message, COMMA>>
           \o v.introducerPubkey \o <<COMMA>> \o Digits(v.timestamp) \o <<COMMA>>
           \o JoinPath(v.trustPath)
           \o (IF "signature" \in DOMAIN v THEN <<COMMA>> \o toHex(v.signature) ELSE <<>>)
           \o <<RBRACE>>
  ELSE IF "method" \in DOMAIN v
    THEN <<LBRACE, CH_q>> \o v.id \o <<COMMA, 48 + TableIndex(MethodTable, v.method)>>
           \o <<COMMA, 48 + v.params, COMMA>> \o Digits(v.timeout) \o <<RBRACE>>
  ELSE IF "result" \in DOMAIN v
    THEN <<LBRACE, CH_r>> \o v.id \o <<COMMA, CH_EQ, 48 + v.result, RBRACE>>
  ELSE IF "error" \in DOMAIN v
    THEN <<LBRACE, CH_r>> \o v.id
           \o <<COMMA, CH_BANG, 48 + TableIndex(MessageTable, v.error.message), RBRACE>>
  ELSE <<LBRACE, CH_e, 48 + v.event, RBRACE>>

SyntaxError == [ok |-> FALSE]
Parsed(v) == [ok |-> TRUE, value |-> v]

ParseRequestBody(body) ==
  LET c1 == IndexOf(body, COMMA, 1)
      c2 == IF c1 = 0 THEN 0 ELSE IndexOf(body, COMMA, c1 + 1)
      c3 == IF c2 = 0 THEN 0 ELSE IndexOf(body, COMMA, c2 + 1)
  IN  IF c3 = 0 \/ c2 # c1 + 2 \/ c3 # c2 + 2 THEN SyntaxError
      ELSE LET m == body[c1 + 1] - 48
               p == body[c2 + 1] - 48
               t == ParseNat(SubSeq(body, c3 + 1, Len(body)))
           IN  IF m \notin 1..Len(MethodTable) \/ p \notin 0..9 \/ t < 0
                 THEN SyntaxError
                 ELSE Parsed([id |-> SubSeq(body, 1, c1 - 1), method |-> MethodTable[m],
                              params |-> p, timeout |-> t])

ParseResponseBody(body) ==
  LET c1 == IndexOf(body, COMMA, 1)
  IN  IF c1 = 0 \/ Len(body) # c1 + 2 THEN SyntaxError
      ELSE LET id == SubSeq(body, 1, c1 - 1)
               d == body[c1 + 2] - 48
           IN  IF body[c1 + 1] = CH_EQ /\ d \in 0..9
                 THEN Parsed([id |-> id, result |-> d])
               ELSE IF body[c1 + 1] = CH_BANG /\ d \in 1..Len(MessageTable)
                 THEN Parsed([id |-> id, error |-> [message |-> MessageTable[d]]])
               ELSE SyntaxError

JSONparse(text) ==
  IF text = NullText THEN Parsed(JSONNull)
  ELSE IF text = <<LBRACE, RBRACE>> THEN Parsed(EmptyObject)
  ELSE IF Len(text) < 3 \/ text[1] # LBRACE \/ text[Len(text)] # RBRACE THEN SyntaxError
  ELSE LET tag == text[2]
           body == SubSeq(text, 3, Len(text) - 1)
       IN  IF tag = CH_h
             THEN IF ParseNat(body) < 0 THEN SyntaxError
                  ELSE Parsed([type |-> "heartbeat", timestamp |-> ParseNat(body)])
           ELSE IF tag = CH_c
             THEN IF body = <<48>> THEN Parsed([type |-> "capabilities"])
                  ELSE IF Len(body) = 1 /\ (body[1] - 48) \in 1..Len(CapsTable)
                    THEN Parsed([type |-> "capabilities", data |-> CapsTable[body[1] - 48]])
                  ELSE SyntaxError
           ELSE IF tag = CH_q THEN ParseRequestBody(body)
           ELSE IF tag = CH_r THEN ParseResponseBody(body)
           ELSE IF tag = CH_e
             THEN IF Len(body) = 1 /\ (body[1] - 48) \in 0..9
                    THEN Parsed([event |-> body[1] - 48])
                    ELSE SyntaxError
           ELSE SyntaxError

(***************************************************************************)
(* src/protocol.js: frame serialization                                    *)
(***************************************************************************)
\* a write that throws (RangeError) makes the whole call throw
Threw == <<"threw">>

serializeFrame(frame) ==
  LET totalSize == 4 + 1 + 1 + 2 + 8 + PUBLIC_KEY_SIZE + Len(frame.payload) + SIGNATURE_SIZE
  IN  IF ~InRange(frame.version, 1) \/ ~InRange(frame.type, 1)
         \/ ~InRange(frame.flags, 2) \/ ~InRange(frame.timestamp, 8)
        THEN Threw
        ELSE writeUInt32BE(totalSize)
               \o writeUInt8(frame.version)
               \o writeUInt8(frame.type)
               \o writeUInt16BE(frame.flags)
               \o writeBigUInt64BE(frame.timestamp)
               \o subarray(frame.senderPubkey \o Zeros(PUBLIC_KEY_SIZE), 0, PUBLIC_KEY_SIZE)
               \o frame.payload
               \o subarray(frame.signature \o Zeros(SIGNATURE_SIZE), 0, SIGNATURE_SIZE)

ProtocolError(message) == [ok |-> FALSE, error |-> "ProtocolError", message |-> message]

deserializeFrame(buffer) ==
  IF Len(buffer) < HEADER_SIZE + SIGNATURE_SIZE THEN ProtocolError("Buffer too small")
  ELSE LET length == readUInt32BE(buffer, 0)
       IN  IF Len(buffer) # length THEN ProtocolError("Length mismatch")
           ELSE LET version == readUInt8(buffer, 4)
                IN  IF version # PROTOCOL_VERSION
                      THEN ProtocolError("Unsupported protocol version")
                    ELSE LET offset == 16 + PUBLIC_KEY_SIZE
                             payloadLength == length - offset - SIGNATURE_SIZE
                         IN  IF payloadLength < 0
                               THEN ProtocolError("Invalid frame: negative payload length")
                               ELSE [ok |-> TRUE,
                                     frame |->
                                       [length |-> length,
                                        version |-> version,
                                        type |-> readUInt8(buffer, 5),
                                        flags |-> readUInt16BE(buffer, 6),
                                        timestamp |-> readBigUInt64BE(buffer, 8),
                                        senderPubkey |-> subarray(buffer, 16, offset),
                                        payload |-> subarray(buffer, offset, offset + payloadLength),
                                        signature |-> subarray(buffer, offset + payloadLength,
                                                               offset + payloadLength + SIGNATURE_SIZE)]]

(***************************************************************************)
(* src/protocol.js: message creation.  dateNow is the value of Date.now(). *)
(***************************************************************************)
createFrameRaw(type, payloadBuffer, kp, flags, dateNow) ==
  LET frameWithoutSig ==
        [length |-> 4 + 1 + 1 + 2 + 8 + PUBLIC_KEY_SIZE + Len(payloadBuffer) + SIGNATURE_SIZE,
         version |-> PROTOCOL_VERSION,
         type |-> type,
         flags |-> flags,
         timestamp |-> dateNow,
         senderPubkey |-> kp.publicKey,
         payload |-> payloadBuffer,
         signature |-> Zeros(SIGNATURE_SIZE)]
      buffer == serializeFrame(frameWithoutSig)
      dataToSign == subarray(buffer, 0, Len(buffer) - SIGNATURE_SIZE)
  IN  [frameWithoutSig EXCEPT !.signature = sign(dataToSign, kp.secretKey)]

createFrame(type, payload, kp, flags, dateNow) ==
  createFrameRaw(type, JSONstringify(payload), kp, flags, dateNow)

verifyFrame(frame) ==
  LET frameCopy == [frame EXCEPT !.signature = Zeros(SIGNATURE_SIZE)]
      buffer == serializeFrame(frameCopy)
  IN  IF buffer = Threw THEN FALSE
      ELSE verify(subarray(buffer, 0, Len(buffer) - SIGNATURE_SIZE),
                  frame.signature, frame.senderPubkey)

createHeartbeat(kp, dateNow) ==
  createFrame(CONTROL, [type |-> "heartbeat", timestamp |-> dateNow], kp, 0, dateNow)

createCapabilities(capabilities, kp, dateNow) ==
  createFrame(CONTROL, [type |-> "capabilities", data |-> capabilities], kp, 0, dateNow)

createRequest(request, kp, dateNow) == createFrame(REQUEST, request, kp, 0, dateNow)

createResponse(response, kp, dateNow) == createFrame(RESPONSE, response, kp, 0, dateNow)

createEvent(event, kp, dateNow) == createFrame(EVENT, event, kp, 0, dateNow)

\* { ...intro, signature }
withSignature(intro, signature) ==
  [f \in DOMAIN intro \cup {"signature"} |->
     IF f = "signature" THEN signature ELSE intro[f]]

\* the object createIntroduction signs and sends: the caller's fields, in the
\* caller's order, and the signature over their JSON text
fullIntro(intro, kp) == withSignature(intro, sign(JSONstringify(intro), kp.secretKey))

createIntroduction(intro, kp, dateNow) ==
  createFrame(INTRODUCE, fullIntro(intro, kp), kp, 0, dateNow)

(***************************************************************************)
(* src/protocol.js: validation                                             *)
(***************************************************************************)
Invalid(error) == [valid |-> FALSE, error |-> error]
\* `Introduction expired (${age}ms old)`
Expired(age) == [valid |-> FALSE, error |-> "Introduction expired", age |-> age]

\* the payload validateIntroduction rebuilds from the record, field by field
IntroPayload(intro) ==
  [pubkey |-> intro.pubkey, alias |-> intro.alias, capabilities |-> intro.capabilities,
   message |-> intro.message, introducerPubkey |-> intro.introducerPubkey,
   timestamp |-> intro.timestamp, trustPath |-> intro.trustPath]

validateIntroduction(intro, introducerPubkey, maxAge, dateNow) ==
  LET age == dateNow - intro.timestamp
  IN  IF age > maxAge THEN Expired(age)
      ELSE IF age < 0 THEN Invalid("Introduction from the future")
      ELSE IF ~verify(JSONstringify(IntroPayload(intro)), intro.signature, introducerPubkey)
        THEN Invalid("Invalid introduction signature")
      ELSE IF intro.introducerPubkey # toHex(introducerPubkey)
        THEN Invalid("Introducer pubkey mismatch in introduction")
      ELSE [valid |-> TRUE]

\* a check that only notices an entry repeated right after itself
detectCircularTrust_adjacentOnly(trustPath, ownPubkey) ==
  \/ \E i \in 1..Len(trustPath) : trustPath[i] = ownPubkey
  \/ \E i \in 2..Len(trustPath) : trustPath[i] = trustPath[i - 1]

detectCircularTrust(trustPath, ownPubkey) ==
  IF \E i \in 1..Len(trustPath) : trustPath[i] = ownPubkey THEN TRUE
  ELSE LET \* whether the loop has returned true by entry k, and `seen` before it
           seen(k) == {trustPath[j] : j \in 1..(k - 1)}
           found[k \in 0..Len(trustPath)] ==
             IF k = 0 THEN FALSE ELSE found[k - 1] \/ trustPath[k] \in seen(k)
       IN  found[Len(trustPath)]

(***************************************************************************)
(* Codec harness: one frame is created, serialized, possibly altered on    *)
(* the wire, parsed and verified, as a sender and a receiver do.           *)
(***************************************************************************)
VARIABLES cPhase, cFrame, cBuf, cEdits, cParsed, cVerdict

cvars == <<cPhase, cFrame, cBuf, cEdits, cParsed, cVerdict>>

\* the state of the peer session (src/peer.js), which the harness leaves alone
VARIABLES
  now,                    \* Date.now()
  streamState,            \* opts.stream: "open", "errored", "destroyed", "closed"
  streamDestroys,         \* calls of stream.destroy() made by the session
  needDrain,              \* the stream returned false from write() and owes a 'drain'
  stalls,                 \* times write() returned false on a stream that owed none
  written,                \* buffers handed to stream.write(), in order
  capabilities, connectedAt, lastSeen, online, destroyed,
  pendingRequests,        \* Map: request id -> call whose resolve/reject/timer it holds
  requestCounter,
  calls,                  \* the promises request() returned, by call number
  heartbeatTimer,         \* next firing of the setInterval, or NoTimer
  heartbeatTimeoutTimer,  \* deadline of the liveness setTimeout, or NoTimer
  writeQueue, writeDraining,
  parked,                 \* writeFrame promises waiting in checkDrain
  emitted                 \* events emitted by the last step

svars == <<now, streamState, streamDestroys, needDrain, stalls, written, capabilities, connectedAt, lastSeen,
           online, destroyed, pendingRequests, requestCounter, calls, heartbeatTimer,
           heartbeatTimeoutTimer, writeQueue, writeDraining, parked, emitted>>

\* the introduction under validation (src/protocol.js), apart from both
VARIABLES
  iIntro,                 \* the introduction record, as the receiver holds it
  iArgs,                  \* the other arguments of the last validateIntroduction call
  iResult,                \* what validateIntroduction returned
  iCircular               \* what detectCircularTrust returned, and for which own key

ivars == <<iIntro, iArgs, iResult, iCircular>>

\* the node (AroniaNode) with the sessions it holds
VARIABLES
  whitelist,              \* hex pubkeys admitted
  autoAcceptFrom,         \* trustConfig.autoAcceptFrom
  streams,                \* every handshaked stream so far: remote pubkey and state
  sessions,               \* the PeerConnection built on a stream, by stream number
  peers,                  \* Map: remote pubkey -> stream number of its active session
  pendingIntroductions,   \* Map: introduced pubkey -> who introduced it
  nodeCalls,              \* the promises node.request() returned, by call number
  handling,               \* inbound requests handed to the method registry
  outcome,                \* how the last call of send() ended
  surfaced,               \* events the node emitted in the last step
  stopped

nvars == <<whitelist, autoAcceptFrom, streams, sessions, peers, pendingIntroductions, nodeCalls,
           handling, outcome, surfaced, stopped>>

vars == <<cvars, svars, ivars, nvars>>

NoFrame == [none |-> TRUE]
NoEdits == [tampered |-> FALSE, resized |-> FALSE, object |-> FALSE]
NoVerdict == [done |-> FALSE]

\* inputs of the harness
CodecTypes == {CONTROL, 255}
CodecFlags == {0, 258}
CodecTimes == {3, 70000}
CodecKeys == {OurKey, RemoteKey}
CodecPayloads ==
  { [type |-> "heartbeat", timestamp |-> 3],
    [id |-> <<51, DASH, 49>>, result |-> 5],
    EmptyObject }
\* byte values written by a tamper, besides the complement of the old byte
TamperVals == {1}
\* sizes a buffer is cut or padded to
ResizeDelta == {-117, -1, 1}
\* changes of one field of a frame object: to a value outside the field's
\* wire range, or to another value inside it
MalformedFields ==
  { <<"version", 256>>, <<"version", 2>>, <<"type", 300>>, <<"type", EVENT>>,
    <<"flags", 65536>>, <<"flags", -1>>, <<"flags", 1>>, <<"timestamp", -1>>,
    <<"timestamp", 4>>, <<"senderPubkey", publicKeyOf(StrangerKey)>>, <<"payload", NullText>>,
    <<"signature", Zeros(SIGNATURE_SIZE)>> }

CodecInit ==
  /\ cPhase = "idle"
  /\ cFrame = NoFrame
  /\ cBuf = <<>>
  /\ cEdits = NoEdits
  /\ cParsed = [ok |-> FALSE, error |-> "none", message |-> "none"]
  /\ cVerdict = NoVerdict

CodecCreateFrame(type, payload, k, flags, t) ==
  /\ cPhase = "idle"
  /\ cFrame' = createFrame(type, payload, keyPair(k), flags, t)
  /\ cPhase' = "created"
  /\ UNCHANGED <<cBuf, cEdits, cParsed, cVerdict, svars, ivars, nvars>>

\* verifyFrame(F) on the frame object createFrame returned
CodecVerifyCreated ==
  /\ cPhase = "created"
  /\ cVerdict' = [done |-> TRUE, value |-> verifyFrame(cFrame)]
  /\ cPhase' = "verifiedObject"
  /\ UNCHANGED <<cFrame, cBuf, cEdits, cParsed, svars, ivars, nvars>>

\* verifyFrame on a frame object one of whose signed fields was changed
CodecVerifyMalformed(fv) ==
  /\ cPhase = "created"
  /\ cFrame[fv[1]] # fv[2]
  /\ cFrame' = [cFrame EXCEPT ![fv[1]] = fv[2]]
  /\ cEdits' = [cEdits EXCEPT !.object = TRUE]
  /\ cVerdict' = [done |-> TRUE, value |-> verifyFrame(cFrame')]
  /\ cPhase' = "verifiedObject"
  /\ UNCHANGED <<cBuf, cParsed, svars, ivars, nvars>>

CodecSerialize ==
  /\ cPhase = "created"
  /\ cBuf' = serializeFrame(cFrame)
  /\ cPhase' = "serialized"
  /\ UNCHANGED <<cFrame, cEdits, cParsed, cVerdict, svars, ivars, nvars>>

\* the positions a tamper may hit: every byte but the upper half of the
\* timestamp, which stays zero because the model's numbers are below 2^31
TamperPositions(buffer) == (1..Len(buffer)) \ (9..12)

TamperValues(buffer, pos) ==
  {v \in TamperVals \cup {255 - buffer[pos]} :
     /\ v # buffer[pos]
     /\ (pos \in {1, 13} => v <= 127)}

CodecTamper(pos, v) ==
  /\ cPhase = "serialized"
  /\ ~cEdits.tampered /\ ~cEdits.resized
  /\ pos \in TamperPositions(cBuf)
  /\ v \in TamperValues(cBuf, pos)
  /\ cBuf' = [cBuf EXCEPT ![pos] = v]
  /\ cEdits' = [cEdits EXCEPT !.tampered = TRUE]
  /\ UNCHANGED <<cPhase, cFrame, cParsed, cVerdict, svars, ivars, nvars>>

\* the buffer is cut or zero-padded to n bytes; with fix its length field is
\* rewritten to n
CodecResize(delta, fix) ==
  LET n == Len(cBuf) + delta
      sized == IF delta < 0 THEN SubSeq(cBuf, 1, n) ELSE cBuf \o Zeros(delta)
  IN  /\ cPhase = "serialized"
      /\ ~cEdits.tampered /\ ~cEdits.resized
      /\ n >= 0
      /\ fix => n >= 4
      /\ cBuf' = IF fix THEN writeUInt32BE(n) \o SubSeq(sized, 5, n) ELSE sized
      /\ cEdits' = [cEdits EXCEPT !.resized = TRUE]
      /\ UNCHANGED <<cPhase, cFrame, cParsed, cVerdict, svars, ivars, nvars>>

CodecDeserialize ==
  /\ cPhase = "serialized"
  /\ cParsed' = deserializeFrame(cBuf)
  /\ cPhase' = "parsed"
  /\ UNCHANGED <<cFrame, cBuf, cEdits, cVerdict, svars, ivars, nvars>>

\* the receiver's verdict: a buffer that does not parse is invalid
CodecVerify ==
  /\ cPhase = "parsed"
  /\ cVerdict' = [done |-> TRUE,
                  value |-> IF cParsed.ok THEN verifyFrame(cParsed.frame) ELSE FALSE]
  /\ cPhase' = "verified"
  /\ UNCHANGED <<cFrame, cBuf, cEdits, cParsed, svars, ivars, nvars>>

CodecNext ==
  \/ \E type \in CodecTypes, payload \in CodecPayloads, k \in CodecKeys,
        flags \in CodecFlags, t \in CodecTimes :
       CodecCreateFrame(type, payload, k, flags, t)
  \/ CodecVerifyCreated
  \/ \E fv \in MalformedFields : CodecVerifyMalformed(fv)
  \/ CodecSerialize
  \/ \E pos \in TamperPositions(cBuf) : \E v \in TamperValues(cBuf, pos) :
       CodecTamper(pos, v)
  \/ \E delta \in ResizeDelta, fix \in BOOLEAN : CodecResize(delta, fix)
  \/ CodecDeserialize
  \/ CodecVerify

(***************************************************************************)
(* src/peer.js: one PeerConnection.  Time is counted in units of 30 000 ms *)
(* (the default heartbeat interval); every timer of the session is armed   *)
(* with a deadline on the clock `now` and fires before the clock passes    *)
(* it.                                                                     *)
(***************************************************************************)
ourKeyPair == keyPair(OurKey)
remoteKeyPair == keyPair(RemoteKey)
strangerKeyPair == keyPair(StrangerKey)
\* opts.pubkey: the remote's public key in hex
pubkey == toHex(publicKeyOf(RemoteKey))

heartbeatInterval == 2
heartbeatTimeout == 2
WRITE_TIMEOUT == 1
\* timeouts the caller of request() passes: the default, 30 000 ms, and one
\* that outlasts the write timeout
RequestTimeouts == {1}
LongTimeouts == {2}

NoTimer == -1
NoError == [name |-> "none", message |-> ""]
PeerOfflineError == [name |-> "PeerOfflineError", message |-> "Peer is offline"]
RequestTimeoutError == [name |-> "RequestTimeoutError", message |-> "Request timed out"]
BackpressureError == [name |-> "Error", message |-> "Write timeout due to backpressure"]
AppError(message) == [name |-> "Error", message |-> message]

EmptyMap == [x \in {} |-> 0]
MapSet(m, key, v) == [x \in DOMAIN m \cup {key} |-> IF x = key THEN v ELSE m[x]]
MapDelete(m, key) == [x \in DOMAIN m \ {key} |-> m[x]]
MapGet(m, key) == IF key \in DOMAIN m THEN m[key] ELSE 0

Event(name, detail) == [name |-> name, detail |-> detail]

\* resolve / reject of the promise of call n: only the first one settles it
Settle(cs, n, state, value, error) ==
  [cs EXCEPT ![n] =
     [@ EXCEPT !.state = IF @ = "pending" THEN state ELSE @,
               !.value = IF cs[n].state = "pending" THEN value ELSE @,
               !.error = IF cs[n].state = "pending" THEN error ELSE @,
               !.settles = @ + 1]]

clearTimeout(cs, n) == [cs EXCEPT ![n].timer = NoTimer]

RECURSIVE RejectAll(_, _, _)
\* for (const [id, pending] of this.pendingRequests) { clearTimeout; reject }
RejectAll(cs, ns, error) ==
  IF ns = {} THEN cs
  ELSE LET n == CHOOSE x \in ns : TRUE
       IN  RejectAll(Settle(clearTimeout(cs, n), n, "rejected", -1, error), ns \ {n}, error)

PendingCalls(m) == {m[id] : id \in DOMAIN m}

(***************************************************************************)
(* writeFrame(frame): the state after the call and how its promise stands. *)
(* who is the call number of the request the frame carries, 0 for others.  *)
(* stream.write() answers false while the stream owes a 'drain' and once   *)
(* it is no longer open; otherwise the transport decides (canContinue).    *)
(***************************************************************************)
\* the answers of a transport that may refuse writes
CanContinue ==
  IF streamState = "open" /\ ~needDrain
    THEN (IF stalls < MaxStalls THEN BOOLEAN ELSE {TRUE})
    ELSE {FALSE}

\* the answers of a transport that takes every write while it is open
Accepting == {streamState = "open"}

\* mutant: writeFrame without its `if (this.destroyed) throw`
writeFrame_noDestroyedCheck(frame, canContinue, who) ==
  LET buffer == serializeFrame(frame)
  IN  IF canContinue
        THEN [outcome |-> "ok", written |-> Append(written, buffer),
              writeQueue |-> writeQueue, needDrain |-> needDrain, stalls |-> stalls,
              parked |-> parked]
        ELSE [outcome |-> IF writeDraining THEN "parked" ELSE "ok",
              written |-> Append(written, buffer),
              writeQueue |-> Append(writeQueue, buffer),
              needDrain |-> (needDrain \/ streamState = "open"),
              stalls |-> IF streamState = "open" /\ ~needDrain THEN stalls + 1 ELSE stalls,
              parked |-> IF writeDraining
                           THEN Append(parked, [who |-> who, timeout |-> now + WRITE_TIMEOUT])
                           ELSE parked]

writeFrame(frame, canContinue, who) ==
  IF destroyed
    THEN [outcome |-> "PeerOfflineError", written |-> written, writeQueue |-> writeQueue,
          needDrain |-> needDrain, stalls |-> stalls, parked |-> parked]
    ELSE LET buffer == serializeFrame(frame)
         IN  IF canContinue
               THEN [outcome |-> "ok", written |-> Append(written, buffer),
                     writeQueue |-> writeQueue, needDrain |-> needDrain, stalls |-> stalls,
                     parked |-> parked]
               ELSE [outcome |-> IF writeDraining THEN "parked" ELSE "ok",
                     written |-> Append(written, buffer),
                     writeQueue |-> Append(writeQueue, buffer),
                     needDrain |-> (needDrain \/ streamState = "open"),
                     stalls |-> IF streamState = "open" /\ ~needDrain THEN stalls + 1 ELSE stalls,
                     parked |-> IF writeDraining
                                  THEN Append(parked, [who |-> who, timeout |-> now + WRITE_TIMEOUT])
                                  ELSE parked]

stopHeartbeat ==
  /\ heartbeatTimer' = NoTimer
  /\ heartbeatTimeoutTimer' = NoTimer

\* the capabilities frame the constructor sends
ourCapabilities == CapsTable[1]

\* a constructor whose heartbeat interval fires once at start-up, before
\* sendCapabilities()
SessionInit_heartbeatFirst(canContinue) ==
  /\ now = 0
  /\ streamState = "open"
  /\ streamDestroys = 0
  /\ capabilities = [agent |-> "unknown", version |-> "0.0.0", accepts |-> <<>>]
  /\ connectedAt = 0
  /\ lastSeen = 0
  /\ online = TRUE
  /\ pendingRequests = EmptyMap
  /\ requestCounter = 0
  /\ calls = <<>>
  /\ destroyed = FALSE
  /\ writeDraining = FALSE
  /\ parked = <<>>
  /\ heartbeatTimer = heartbeatInterval
  /\ heartbeatTimeoutTimer = heartbeatTimeout
  /\ LET beat == serializeFrame(createHeartbeat(ourKeyPair, 0))
         buffer == serializeFrame(createCapabilities(ourCapabilities, ourKeyPair, 0))
     IN  /\ written = <<beat, buffer>>
         /\ writeQueue = IF canContinue THEN <<>> ELSE <<buffer>>
  /\ needDrain = ~canContinue
  /\ stalls = IF canContinue THEN 0 ELSE 1
  /\ emitted = <<>>

SessionInit(canContinue) ==
  /\ now = 0
  /\ streamState = "open"
  /\ streamDestroys = 0
  /\ capabilities = [agent |-> "unknown", version |-> "0.0.0", accepts |-> <<>>]
  /\ connectedAt = 0
  /\ lastSeen = 0
  /\ online = TRUE
  /\ pendingRequests = EmptyMap
  /\ requestCounter = 0
  /\ calls = <<>>
  /\ destroyed = FALSE
  /\ writeDraining = FALSE
  /\ parked = <<>>
  /\ heartbeatTimer = heartbeatInterval
  /\ heartbeatTimeoutTimer = heartbeatTimeout
  /\ LET buffer == serializeFrame(createCapabilities(ourCapabilities, ourKeyPair, 0))
     IN  /\ written = <<buffer>>
         /\ writeQueue = IF canContinue THEN <<>> ELSE <<buffer>>
  /\ needDrain = ~canContinue
  /\ stalls = IF canContinue THEN 0 ELSE 1
  /\ emitted = <<>>

(***************************************************************************)
(* Buffers the stream can deliver in a 'data' event: what the remote peer, *)
(* a third party or a faulty link can put on the wire.  Each is kept with  *)
(* its origin: the key that signed it and whether it is still the buffer   *)
(* that was signed.                                                        *)
(***************************************************************************)
BogusId == <<57, DASH, 57>>
BadJSON == <<LBRACE, 63>>

SetByte(buffer, pos, v) == [buffer EXCEPT ![pos] = v]

Wire(label, signer, intact, buffer) ==
  [label |-> label, signer |-> signer, intact |-> intact, id |-> <<>>, data |-> buffer]

Signed(label, k, type, payload) ==
  Wire(label, k, TRUE, serializeFrame(createFrame(type, payload, keyPair(k), 0, 0)))

StaticInbound ==
  LET ev == serializeFrame(createEvent([event |-> 7], remoteKeyPair, 0))
      sev == createEvent([event |-> 7], strangerKeyPair, 0)
  IN  { Signed("heartbeat", RemoteKey, CONTROL, [type |-> "heartbeat", timestamp |-> 0]),
        Signed("capabilities", RemoteKey, CONTROL,
               [type |-> "capabilities", data |-> CapsTable[2]]),
        Signed("capabilitiesNoData", RemoteKey, CONTROL, [type |-> "capabilities"]),
        Signed("request", RemoteKey, REQUEST,
               [id |-> <<55, DASH, 49>>, method |-> "ping", params |-> 0, timeout |-> 1]),
        Signed("event", RemoteKey, EVENT, [event |-> 7]),
        Signed("introduce", RemoteKey, INTRODUCE, [event |-> 1]),
        Signed("streamData", RemoteKey, STREAM_DATA, [event |-> 1]),
        Signed("streamEnd", RemoteKey, STREAM_END, [event |-> 1]),
        Signed("unknownType", RemoteKey, 9, [event |-> 1]),
        Signed("nullControl", RemoteKey, CONTROL, JSONNull),
        Signed("nullResponse", RemoteKey, RESPONSE, JSONNull),
        Wire("badPayload", RemoteKey, TRUE,
             serializeFrame(createFrameRaw(EVENT, BadJSON, remoteKeyPair, 0, 0))),
        Wire("wrongVersion", RemoteKey, FALSE, SetByte(ev, 5, 2)),
        Wire("tooSmall", RemoteKey, FALSE, SubSeq(ev, 1, 8)),
        Wire("lengthMismatch", RemoteKey, FALSE, ev \o <<0>>),
        Wire("badSignature", RemoteKey, FALSE, SetByte(ev, Len(ev), 255 - ev[Len(ev)])),
        Wire("tamperedPayload", RemoteKey, FALSE, SetByte(ev, HEADER_SIZE + 3, 56)),
        Signed("strangerEvent", StrangerKey, EVENT, [event |-> 7]),
        Signed("strangerCapabilities", StrangerKey, CONTROL,
               [type |-> "capabilities", data |-> CapsTable[2]]),
        Wire("forgedSender", StrangerKey, FALSE,
             serializeFrame([sev EXCEPT !.senderPubkey = remoteKeyPair.publicKey])) }

\* labels of the buffers the session must reject: not a well-formed frame
\* signed by the remote peer with a parseable payload of a handled type
RejectLabels ==
  { "streamData", "streamEnd", "unknownType", "nullControl", "nullResponse", "badPayload",
    "wrongVersion", "tooSmall", "lengthMismatch", "badSignature", "tamperedPayload",
    "strangerEvent", "strangerCapabilities", "forgedSender", "strangerResponse" }

\* mutant: the id is the time alone
FormatId_timeOnly(t, counter) == Digits(t)

\* `${Date.now()}-${++this.requestCounter}`
FormatId(t, counter) == Digits(t) \o <<DASH>> \o Digits(counter)

\* ids a response on the wire can carry: every id the session can issue, and
\* one it never issues
AllIds == {FormatId(t, c) : t \in 0..MaxTime, c \in 1..MaxRequests} \cup {BogusId}

\* the result a response to request id carries: 4 + the id's last digit
ResultFor(id) == ((id[Len(id)] - 48) % 6) + 4

ResponseInbound ==
  UNION { { [Signed("response", RemoteKey, RESPONSE, [id |-> id, result |-> ResultFor(id)])
               EXCEPT !.id = id],
            [Signed("responseError", RemoteKey, RESPONSE,
                    [id |-> id, error |-> [message |-> "boom"]]) EXCEPT !.id = id],
            [Signed("strangerResponse", StrangerKey, RESPONSE,
                    [id |-> id, result |-> ResultFor(id)]) EXCEPT !.id = id] } : id \in AllIds }

(***************************************************************************)
(* handleData / handleFrame / handleControl / handleResponse.              *)
(*                                                                         *)
(* Receive is the part of handleData and handleFrame that depends on the   *)
(* buffer alone: deserializeFrame, verifyFrame, the sender in hex and      *)
(* JSON.parse of the payload.  The handlers then act on what was received; *)
(* their result is the record of what they leave behind.                   *)
(***************************************************************************)
Receive(data) ==
  LET parsed == deserializeFrame(data)
  IN  IF ~parsed.ok
        THEN [parsed |-> FALSE, verified |-> FALSE, senderPubkeyHex |-> <<>>, type |-> 0,
              payload |-> SyntaxError]
        ELSE [parsed |-> TRUE,
              verified |-> verifyFrame(parsed.frame),
              senderPubkeyHex |-> toHex(parsed.frame.senderPubkey),
              type |-> parsed.frame.type,
              payload |-> JSONparse(parsed.frame.payload)]

\* every buffer of the wire with what Receive makes of it
Inbound ==
  { [label |-> w.label, signer |-> w.signer, intact |-> w.intact, id |-> w.id,
     rx |-> Receive(w.data)] : w \in StaticInbound \cup ResponseInbound }

\* ids of the requests this session has issued so far, and one it never issued
ResponseIds == {calls[n].id : n \in 1..Len(calls)} \cup {BogusId}

Handled(em, caps, pend, cs, dispatched) ==
  [emitted |-> em, capabilities |-> caps, pendingRequests |-> pend, calls |-> cs,
   dispatched |-> dispatched]

Unchanged(em, dispatched) == Handled(em, capabilities, pendingRequests, calls, dispatched)

ErrorEvent(kind) == <<Event("error", kind)>>

\* a handler that announces the capabilities without storing them
handleControl_announceOnly(msg) ==
  IF "null" \in DOMAIN msg THEN Unchanged(ErrorEvent("TypeError"), TRUE)
  ELSE IF "type" \in DOMAIN msg /\ msg.type = "capabilities" /\ "data" \in DOMAIN msg
    THEN Unchanged(<<Event("capabilities", msg.data.agent)>>, TRUE)
  ELSE Unchanged(<<>>, TRUE)

handleControl(msg) ==
  IF "null" \in DOMAIN msg THEN Unchanged(ErrorEvent("TypeError"), TRUE)
  ELSE IF "type" \in DOMAIN msg /\ msg.type = "capabilities" /\ "data" \in DOMAIN msg
    THEN Handled(<<Event("capabilities", msg.data.agent)>>, msg.data, pendingRequests,
                 calls, TRUE)
  ELSE Unchanged(<<>>, TRUE)

\* mutant: the response completes the oldest pending request
handleResponse_oldestPending(response) ==
  IF "null" \in DOMAIN response THEN Unchanged(ErrorEvent("TypeError"), TRUE)
  ELSE IF "id" \notin DOMAIN response \/ response.id \notin DOMAIN pendingRequests
    THEN Unchanged(<<>>, TRUE)
  ELSE LET n == CHOOSE x \in PendingCalls(pendingRequests) :
                  \A y \in PendingCalls(pendingRequests) : x <= y
           pend == MapDelete(pendingRequests, calls[n].id)
       IN  Handled(<<>>, capabilities, pend,
                   Settle(clearTimeout(calls, n), n, "resolved",
                          IF "result" \in DOMAIN response THEN response.result ELSE -1,
                          NoError),
                   TRUE)

handleResponse(response) ==
  IF "null" \in DOMAIN response THEN Unchanged(ErrorEvent("TypeError"), TRUE)
  ELSE IF "id" \notin DOMAIN response \/ response.id \notin DOMAIN pendingRequests
    THEN Unchanged(<<>>, TRUE)
  ELSE LET n == pendingRequests[response.id]
           cleared == clearTimeout(calls, n)
           pend == MapDelete(pendingRequests, response.id)
       IN  IF "error" \in DOMAIN response
             THEN Handled(<<>>, capabilities, pend,
                          Settle(cleared, n, "rejected", -1, AppError(response.error.message)),
                          TRUE)
             ELSE Handled(<<>>, capabilities, pend,
                          Settle(cleared, n, "resolved",
                                 IF "result" \in DOMAIN response THEN response.result ELSE -1,
                                 NoError),
                          TRUE)

\* mutant: a frame of an unknown type is dropped without a word
handleFrame_silentDefault(rx) ==
  IF ~rx.payload.ok THEN Unchanged(ErrorEvent("SyntaxError"), TRUE)
  ELSE IF rx.type = CONTROL THEN handleControl(rx.payload.value)
  ELSE IF rx.type = REQUEST THEN Unchanged(<<Event("request", "")>>, TRUE)
  ELSE IF rx.type = RESPONSE THEN handleResponse(rx.payload.value)
  ELSE IF rx.type = EVENT THEN Unchanged(<<Event("message", "")>>, TRUE)
  ELSE IF rx.type = INTRODUCE THEN Unchanged(<<Event("introduction", "")>>, TRUE)
  ELSE Unchanged(<<>>, TRUE)

handleFrame(rx) ==
  IF ~rx.payload.ok THEN Unchanged(ErrorEvent("SyntaxError"), TRUE)
  ELSE IF rx.type = CONTROL THEN handleControl(rx.payload.value)
  ELSE IF rx.type = REQUEST THEN Unchanged(<<Event("request", "")>>, TRUE)
  ELSE IF rx.type = RESPONSE THEN handleResponse(rx.payload.value)
  ELSE IF rx.type = EVENT THEN Unchanged(<<Event("message", "")>>, TRUE)
  ELSE IF rx.type = INTRODUCE THEN Unchanged(<<Event("introduction", "")>>, TRUE)
  ELSE Unchanged(ErrorEvent("ProtocolError: Unknown message type"), TRUE)

\* mutant: the sender of a verified frame is not compared with opts.pubkey
handleData_noSenderCheck(rx) ==
  IF ~rx.parsed THEN Unchanged(ErrorEvent("ProtocolError"), FALSE)
  ELSE IF ~rx.verified
    THEN Unchanged(ErrorEvent("ProtocolError: Invalid frame signature"), FALSE)
  ELSE handleFrame(rx)

handleData(rx) ==
  IF ~rx.parsed THEN Unchanged(ErrorEvent("ProtocolError"), FALSE)
  ELSE IF ~rx.verified
    THEN Unchanged(ErrorEvent("ProtocolError: Invalid frame signature"), FALSE)
  ELSE IF rx.senderPubkeyHex # pubkey
    THEN Unchanged(ErrorEvent("ProtocolError: Sender mismatch"), FALSE)
  ELSE handleFrame(rx)

\* mutant: only a heartbeat rearms the liveness timer
HandleData_rearmOnHeartbeat(wire) ==
  LET h == handleData(wire.rx)
  IN  /\ streamState = "open"
      /\ wire.id # <<>> => wire.id \in ResponseIds
      /\ lastSeen' = now
      /\ heartbeatTimeoutTimer' =
           IF wire.label = "heartbeat" THEN now + heartbeatTimeout ELSE heartbeatTimeoutTimer
      /\ emitted' = h.emitted
      /\ capabilities' = h.capabilities
      /\ pendingRequests' = h.pendingRequests
      /\ calls' = h.calls
      /\ UNCHANGED <<cvars, ivars, nvars, streamDestroys, now, streamState, needDrain, stalls, written, connectedAt, online, destroyed,
                     requestCounter, heartbeatTimer, writeQueue, writeDraining, parked>>

\* stream.on("data")
HandleData(wire) ==
  LET h == handleData(wire.rx)
  IN  /\ streamState = "open"
      /\ wire.id # <<>> => wire.id \in ResponseIds
      /\ lastSeen' = now
      /\ heartbeatTimeoutTimer' = now + heartbeatTimeout
      /\ emitted' = h.emitted
      /\ capabilities' = h.capabilities
      /\ pendingRequests' = h.pendingRequests
      /\ calls' = h.calls
      /\ UNCHANGED <<cvars, ivars, nvars, streamDestroys, now, streamState, needDrain, stalls, written, connectedAt, online, destroyed,
                     requestCounter, heartbeatTimer, writeQueue, writeDraining, parked>>

(***************************************************************************)
(* request(method, params, timeout)                                        *)
(***************************************************************************)
NewCall(id, timeout) ==
  [id |-> id, at |-> now, state |-> "pending", value |-> -1, error |-> NoError, settles |-> 0,
   timer |-> now + timeout, write |-> "pending"]

\* mutant: the handler of a failed write only rejects
requestCatch_rejectOnly(pend, cs, n, err) ==
  [pendingRequests |-> pend, calls |-> Settle(cs, n, "rejected", -1, err)]

\* the handler request() attaches to a failed write:
\* clearTimeout(timer); this.pendingRequests.delete(id); reject(err)
requestCatch(pend, cs, n, err) ==
  [pendingRequests |-> MapDelete(pend, cs[n].id),
   calls |-> Settle(clearTimeout(cs, n), n, "rejected", -1, err)]

RequestCall(method, params, timeout, canContinue) ==
  LET counter == requestCounter + 1
      id == FormatId(now, counter)
      n == Len(calls) + 1
      request == [id |-> id, method |-> method, params |-> params, timeout |-> timeout]
      \* this.pendingRequests.set(id, {resolve, reject, timer})
      registered == MapSet(pendingRequests, id, n)
      w == writeFrame(createRequest(request, ourKeyPair, now), canContinue, n)
      started == Append(calls, [NewCall(id, timeout) EXCEPT !.write = w.outcome])
      failed == requestCatch(registered, started, n, PeerOfflineError)
  IN  /\ requestCounter < MaxRequests
      /\ requestCounter' = counter
      /\ written' = w.written
      /\ writeQueue' = w.writeQueue
      /\ needDrain' = w.needDrain
      /\ stalls' = w.stalls
      /\ parked' = w.parked
      /\ pendingRequests' =
           IF w.outcome = "PeerOfflineError" THEN failed.pendingRequests ELSE registered
      /\ calls' = IF w.outcome = "PeerOfflineError" THEN failed.calls ELSE started
      /\ emitted' = <<>>
      /\ UNCHANGED <<cvars, ivars, nvars, streamDestroys, now, streamState, capabilities, connectedAt, lastSeen, online, destroyed,
                     heartbeatTimer, heartbeatTimeoutTimer, writeDraining>>

\* mutant: the deadline rejects the caller and leaves the entry in the map
requestDeadline_keepsEntry(pend, cs, n) ==
  [pendingRequests |-> pend,
   calls |-> Settle(clearTimeout(cs, n), n, "rejected", -1, RequestTimeoutError)]

\* mutant: the deadline of one request fails every pending request
requestDeadline_rejectsAll(pend, cs, n) ==
  [pendingRequests |-> EmptyMap,
   calls |-> RejectAll(cs, PendingCalls(pend), RequestTimeoutError)]

\* mutant: the deadline deletes the entry and leaves the caller waiting
requestDeadline_deleteOnly(pend, cs, n) ==
  [pendingRequests |-> MapDelete(pend, cs[n].id), calls |-> clearTimeout(cs, n)]

\* the setTimeout callback of request():
\* this.pendingRequests.delete(id); reject(new RequestTimeoutError(id, timeout))
requestDeadline(pend, cs, n) ==
  [pendingRequests |-> MapDelete(pend, cs[n].id),
   calls |-> Settle(clearTimeout(cs, n), n, "rejected", -1, RequestTimeoutError)]

RequestTimer(n) ==
  /\ n \in 1..Len(calls)
  /\ calls[n].timer # NoTimer
  /\ now >= calls[n].timer
  /\ pendingRequests' = requestDeadline(pendingRequests, calls, n).pendingRequests
  /\ calls' = requestDeadline(pendingRequests, calls, n).calls
  /\ emitted' = <<>>
  /\ UNCHANGED <<cvars, ivars, nvars, streamDestroys, now, streamState, needDrain, stalls, written, capabilities, connectedAt, lastSeen,
                 online, destroyed, requestCounter, heartbeatTimer, heartbeatTimeoutTimer,
                 writeQueue, writeDraining, parked>>

(***************************************************************************)
(* heartbeat and liveness timers                                           *)
(***************************************************************************)
\* the setInterval callback of startHeartbeat
HeartbeatTick(canContinue) ==
  LET w == writeFrame(createHeartbeat(ourKeyPair, now), canContinue, 0)
  IN  /\ heartbeatTimer # NoTimer
      /\ now >= heartbeatTimer
      /\ heartbeatTimer' = now + heartbeatInterval
      /\ IF destroyed \/ ~online
           THEN UNCHANGED <<written, writeQueue, needDrain, stalls, parked>>
           ELSE /\ written' = w.written
                /\ writeQueue' = w.writeQueue
                /\ needDrain' = w.needDrain
                /\ stalls' = w.stalls
                /\ parked' = w.parked
      /\ emitted' = <<>>
      /\ UNCHANGED <<cvars, ivars, nvars, streamDestroys, now, streamState, capabilities, connectedAt, lastSeen, online, destroyed,
                     pendingRequests, requestCounter, calls, heartbeatTimeoutTimer,
                     writeDraining>>

\* mutant: destroy() leaves the heartbeat and liveness timers running
destroyBody_keepsTimers ==
  /\ destroyed' = TRUE
  /\ UNCHANGED <<heartbeatTimer, heartbeatTimeoutTimer>>
  /\ streamState' = IF streamState = "closed" THEN "closed" ELSE "destroyed"
  /\ streamDestroys' = streamDestroys + 1
  /\ calls' = RejectAll(calls, PendingCalls(pendingRequests), PeerOfflineError)
  /\ pendingRequests' = EmptyMap

\* destroy(), after its `if (this.destroyed) return`
destroyBody ==
  /\ destroyed' = TRUE
  /\ stopHeartbeat
  /\ streamState' = IF streamState = "closed" THEN "closed" ELSE "destroyed"
  /\ streamDestroys' = streamDestroys + 1
  /\ calls' = RejectAll(calls, PendingCalls(pendingRequests), PeerOfflineError)
  /\ pendingRequests' = EmptyMap

\* mutant: destroy() without its `if (this.destroyed) return`
Destroy_noGuard ==
  /\ destroyBody
  /\ emitted' = <<>>
  /\ UNCHANGED <<cvars, ivars, nvars, now, needDrain, stalls, written, capabilities, connectedAt, lastSeen, online,
                 requestCounter, writeQueue, writeDraining, parked>>

Destroy ==
  /\ IF destroyed
       THEN UNCHANGED <<destroyed, heartbeatTimer, heartbeatTimeoutTimer, streamState,
                        streamDestroys, calls, pendingRequests>>
       ELSE destroyBody
  /\ emitted' = <<>>
  /\ UNCHANGED <<cvars, ivars, nvars, now, needDrain, stalls, written, capabilities, connectedAt, lastSeen, online,
                 requestCounter, writeQueue, writeDraining, parked>>

\* mutant: the liveness timer emits 'timeout' and leaves the session up
LivenessTimeout_emitsOnly ==
  /\ heartbeatTimeoutTimer # NoTimer
  /\ now >= heartbeatTimeoutTimer
  /\ heartbeatTimeoutTimer' = NoTimer
  /\ emitted' = <<Event("timeout", "")>>
  /\ UNCHANGED <<cvars, ivars, nvars, now, needDrain, stalls, written, capabilities, connectedAt, lastSeen, online,
                 requestCounter, writeQueue, writeDraining, parked, destroyed, heartbeatTimer,
                 streamState, streamDestroys, calls, pendingRequests>>

\* the setTimeout callback of resetHeartbeatTimeout: emit("timeout"); destroy()
LivenessTimeout ==
  /\ heartbeatTimeoutTimer # NoTimer
  /\ now >= heartbeatTimeoutTimer
  /\ IF destroyed
       THEN /\ heartbeatTimeoutTimer' = NoTimer
            /\ UNCHANGED <<destroyed, heartbeatTimer, streamState, streamDestroys, calls,
                           pendingRequests>>
       ELSE destroyBody
  /\ emitted' = <<Event("timeout", "")>>
  /\ UNCHANGED <<cvars, ivars, nvars, now, needDrain, stalls, written, capabilities, connectedAt, lastSeen, online,
                 requestCounter, writeQueue, writeDraining, parked>>

(***************************************************************************)
(* stream 'close' and 'error'                                              *)
(***************************************************************************)
\* mutant: handleDisconnect without its stopHeartbeat()
handleDisconnect_keepsTimers(before) ==
  IF destroyed
    THEN /\ emitted' = before
         /\ UNCHANGED <<online, heartbeatTimer, heartbeatTimeoutTimer, calls, pendingRequests>>
    ELSE /\ online' = FALSE
         /\ UNCHANGED <<heartbeatTimer, heartbeatTimeoutTimer>>
         /\ calls' = RejectAll(calls, PendingCalls(pendingRequests), PeerOfflineError)
         /\ pendingRequests' = EmptyMap
         /\ emitted' = Append(before, Event("disconnect", ""))

handleDisconnect(before) ==
  IF destroyed
    THEN /\ emitted' = before
         /\ UNCHANGED <<online, heartbeatTimer, heartbeatTimeoutTimer, calls, pendingRequests>>
    ELSE /\ online' = FALSE
         /\ stopHeartbeat
         /\ calls' = RejectAll(calls, PendingCalls(pendingRequests), PeerOfflineError)
         /\ pendingRequests' = EmptyMap
         /\ emitted' = Append(before, Event("disconnect", ""))

StreamClose ==
  /\ streamState \in {"open", "errored", "destroyed"}
  /\ streamState' = "closed"
  /\ handleDisconnect(<<>>)
  /\ UNCHANGED <<cvars, ivars, nvars, streamDestroys, now, needDrain, stalls, written, capabilities, connectedAt, lastSeen, destroyed,
                 requestCounter, writeQueue, writeDraining, parked>>

StreamError ==
  /\ streamState = "open"
  /\ streamState' = "errored"
  /\ handleDisconnect(<<Event("error", "stream error")>>)
  /\ UNCHANGED <<cvars, ivars, nvars, streamDestroys, now, needDrain, stalls, written, capabilities, connectedAt, lastSeen, destroyed,
                 requestCounter, writeQueue, writeDraining, parked>>

(***************************************************************************)
(* write queue                                                             *)
(***************************************************************************)
\* stream.on("drain"): processWriteQueue shifts and writes `count` buffers;
\* the last of them is the one whose write returned false, if `blocked`
Drain(count, blocked) ==
  /\ streamState = "open"
  /\ needDrain
  /\ count \in 0..Len(writeQueue)
  /\ blocked => count >= 1
  /\ ~blocked => count = Len(writeQueue)
  /\ written' = written \o SubSeq(writeQueue, 1, count)
  /\ writeQueue' = SubSeq(writeQueue, count + 1, Len(writeQueue))
  /\ writeDraining' = blocked
  /\ needDrain' = blocked
  /\ stalls' = stalls
  /\ emitted' = <<>>
  /\ UNCHANGED <<cvars, ivars, nvars, streamDestroys, now, streamState, capabilities, connectedAt, lastSeen, online, destroyed,
                 pendingRequests, requestCounter, calls, heartbeatTimer,
                 heartbeatTimeoutTimer, parked>>

\* the write promises of the requests in ns are resolved; resolve() after
\* reject() is void
WriteResolved(cs, ns) ==
  [n \in 1..Len(cs) |->
     IF n \in ns /\ cs[n].write = "parked" THEN [cs[n] EXCEPT !.write = "ok"] ELSE cs[n]]

\* the checkDrain callbacks of the parked writeFrame calls, which setImmediate
\* reschedules until writeDraining is false: clearTimeout(timeout); resolve()
CheckDrain ==
  /\ parked # <<>>
  /\ ~writeDraining
  /\ parked' = <<>>
  /\ calls' = WriteResolved(calls, {parked[i].who : i \in 1..Len(parked)})
  /\ emitted' = <<>>
  /\ UNCHANGED <<cvars, ivars, nvars, streamDestroys, now, streamState, needDrain, stalls, written, capabilities, connectedAt,
                 lastSeen, online, destroyed, pendingRequests, requestCounter, heartbeatTimer,
                 heartbeatTimeoutTimer, writeQueue, writeDraining>>

\* the 30 s setTimeout of a parked writeFrame: reject(new Error("Write timeout
\* due to backpressure")); for a request, the handler of its failed write runs
WriteTimeout(i) ==
  LET n == parked[i].who
      failed == requestCatch(pendingRequests, [calls EXCEPT ![n].write = "timeout"], n,
                             BackpressureError)
  IN  /\ i \in 1..Len(parked)
      /\ parked[i].timeout # NoTimer
      /\ now >= parked[i].timeout
      /\ parked' = [parked EXCEPT ![i].timeout = NoTimer]
      /\ pendingRequests' = IF n = 0 THEN pendingRequests ELSE failed.pendingRequests
      /\ calls' = IF n = 0 THEN calls ELSE failed.calls
      /\ emitted' = <<>>
      /\ UNCHANGED <<cvars, ivars, nvars, streamDestroys, now, streamState, needDrain, stalls, written, capabilities, connectedAt, lastSeen,
                     online, destroyed, requestCounter, heartbeatTimer, heartbeatTimeoutTimer,
                     writeQueue, writeDraining>>

(***************************************************************************)
(* the clock                                                               *)
(***************************************************************************)
TimerDue ==
  \/ heartbeatTimer # NoTimer /\ now >= heartbeatTimer
  \/ heartbeatTimeoutTimer # NoTimer /\ now >= heartbeatTimeoutTimer
  \/ \E n \in 1..Len(calls) : calls[n].timer # NoTimer /\ now >= calls[n].timer
  \/ \E i \in 1..Len(parked) : parked[i].timeout # NoTimer /\ now >= parked[i].timeout

Tick ==
  /\ now < MaxTime
  /\ ~TimerDue
  /\ now' = now + 1
  /\ emitted' = <<>>
  /\ UNCHANGED <<cvars, ivars, nvars, streamDestroys, streamState, needDrain, stalls, written, capabilities, connectedAt, lastSeen,
                 online, destroyed, pendingRequests, requestCounter, calls, heartbeatTimer,
                 heartbeatTimeoutTimer, writeQueue, writeDraining, parked>>

(***************************************************************************)
(* Introduction harness: an introducer signs an introduction, the record   *)
(* may be altered on its way, and the receiver validates it and checks its *)
(* trust path, as the tests of src/protocol.js do.                         *)
(***************************************************************************)
\* Date.now() at the receiver and the maxAge it passes, in the clock's units
IntroNow == 2
IntroMaxAge == 1
hex(k) == toHex(publicKeyOf(k))

\* every path of at most MaxPath entries over our key and the two others
RECURSIVE PathsOfLength(_)
PathsOfLength(n) ==
  IF n = 0 THEN {<<>>}
  ELSE {Append(q, hex(k)) : q \in PathsOfLength(n - 1),
                            k \in {OurKey, RemoteKey, StrangerKey}}

\* a path of pairwise-distinct keys, none of them ours, one longer than
\* maxTrustDepth
DeepPath == [i \in 1..(maxTrustDepth + 1) |-> hex(RemoteKey + i - 1)]

TrustPaths == UNION {PathsOfLength(n) : n \in 0..MaxPath} \cup {DeepPath}

NoIntro == [none |-> TRUE]

IntroInit ==
  /\ iIntro = NoIntro
  /\ iArgs = NoVerdict
  /\ iResult = NoVerdict
  /\ iCircular = NoVerdict

\* the introducer builds and signs the record (createIntroduction)
IntroCreate(target, claimed, signer, t, path) ==
  /\ iIntro = NoIntro
  /\ iIntro' = fullIntro([pubkey |-> hex(target), alias |-> 1, capabilities |-> CapsTable[2],
                          message |-> 1, introducerPubkey |-> hex(claimed), timestamp |-> t,
                          trustPath |-> path],
                         keyPair(signer))
  /\ UNCHANGED <<iArgs, iResult, iCircular, cvars, svars, nvars>>

\* a field of the record changes after it was signed
IntroTamper(field) ==
  /\ iIntro # NoIntro /\ ~iResult.done /\ ~iCircular.done
  /\ iIntro' = IF field = "alias" THEN [iIntro EXCEPT !.alias = 2]
               ELSE [iIntro EXCEPT !.pubkey = hex(OurKey)]
  /\ iIntro' # iIntro
  /\ UNCHANGED <<iArgs, iResult, iCircular, cvars, svars, nvars>>

\* validateIntroduction(intro, introducerPubkey, maxAge) at time dateNow
IntroValidate(k, maxAge, dateNow) ==
  /\ iIntro # NoIntro /\ ~iResult.done
  /\ iArgs' = [done |-> TRUE, introducer |-> k, maxAge |-> maxAge, dateNow |-> dateNow]
  /\ iResult' = [done |-> TRUE,
                 result |-> validateIntroduction(iIntro, publicKeyOf(k), maxAge, dateNow)]
  /\ UNCHANGED <<iIntro, iCircular, cvars, svars, nvars>>

\* detectCircularTrust(intro.trustPath, ownPubkey)
IntroDetect(own) ==
  /\ iIntro # NoIntro /\ ~iCircular.done
  /\ iCircular' = [done |-> TRUE, ownPubkey |-> own,
                   value |-> detectCircularTrust(iIntro.trustPath, own)]
  /\ UNCHANGED <<iIntro, iArgs, iResult, cvars, svars, nvars>>

IntroNext ==
  \/ \E target \in {StrangerKey}, claimed \in {RemoteKey, StrangerKey},
        signer \in {RemoteKey, StrangerKey}, t \in 0..(IntroNow + 1), path \in TrustPaths :
       IntroCreate(target, claimed, signer, t, path)
  \/ \E field \in {"alias", "pubkey"} : IntroTamper(field)
  \/ \E k \in {RemoteKey, StrangerKey} : IntroValidate(k, IntroMaxAge, IntroNow)
  \/ \E own \in {hex(OurKey), hex(StrangerKey)} : IntroDetect(own)

(***************************************************************************)
(* The node (AroniaNode): admission of connections, the outbound calls,    *)
(* the method registry, introductions and stop().  A peer session appears  *)
(* as what the node sees of a PeerConnection (src/peer.js): its remote     *)
(* pubkey, whether it is online and destroyed, the requests pending on it  *)
(* and the frames it handed to writeFrame, each by type and payload.  The  *)
(* node's clock stands at IntroNow.                                        *)
(***************************************************************************)
\* options.whitelist as configured at start-up
configuredWhitelist == {hex(RemoteKey)}
\* the method registry: the built-in "ping" and one the application registered
methods == {"ping", "echo"}
\* trustConfig.requireApprovalFor: capability tokens that disable auto-accept
requireApprovalFor == {"json"}

\* Buffer.from(text, 'hex')
fromHex(text) == [i \in 1..(Len(text) \div 2) |-> 16 * text[2 * i - 1] + text[2 * i]]

Outbound(type, payload) == [type |-> type, payload |-> payload]

\* new PeerConnection(...): online, not destroyed, the capabilities frame sent
newSession(R) ==
  [pubkey |-> R, online |-> TRUE, destroyed |-> FALSE, pendingRequests |-> {},
   written |-> <<Outbound(CONTROL, [type |-> "capabilities", data |-> ourCapabilities])>>]

\* the requests in ns, as far as they are pending, fail with PeerOfflineError
Offline(cs, ns) ==
  [n \in DOMAIN cs |->
     IF n \in ns /\ cs[n].state = "pending"
       THEN [cs[n] EXCEPT !.state = "rejected", !.error = PeerOfflineError]
       ELSE cs[n]]

\* send(message): createFrame is not among the names peer.js imports, so
\* the call ends in a ReferenceError before writeFrame is reached
send(session, message) ==
  [error |-> [name |-> "ReferenceError", message |-> "createFrame is not defined"],
   session |-> session]

\* a sendResponse that passes results on and drops errors
sendResponse_resultsOnly(session, response) ==
  IF session.destroyed \/ "error" \in DOMAIN response THEN session
  ELSE [session EXCEPT !.written = Append(@, Outbound(RESPONSE, response))]

\* sendResponse(response): writeFrame throws on a destroyed session and
\* hands the frame to the stream otherwise
sendResponse(session, response) ==
  IF session.destroyed THEN session
  ELSE [session EXCEPT !.written = Append(@, Outbound(RESPONSE, response))]

NoOutcome == [call |-> "none"]

NodeInit ==
  /\ whitelist = configuredWhitelist
  /\ autoAcceptFrom = {}
  /\ streams = <<>>
  /\ sessions = EmptyMap
  /\ peers = EmptyMap
  /\ pendingIntroductions = EmptyMap
  /\ nodeCalls = <<>>
  /\ handling = {}
  /\ outcome = NoOutcome
  /\ surfaced = <<>>
  /\ stopped = FALSE

\* the sessions that are up: not destroyed, not disconnected
ActiveSessions == {s \in DOMAIN sessions : sessions[s].online /\ ~sessions[s].destroyed}

\* admission that skips the whitelist
handleConnection_noWhitelist(R) ==
  /\ ~stopped /\ Len(streams) < MaxStreams
  /\ IF R \in DOMAIN peers
       THEN /\ streams' = Append(streams, [pubkey |-> R, state |-> "destroyed"])
            /\ surfaced' = <<>>
            /\ UNCHANGED <<sessions, peers>>
       ELSE /\ streams' = Append(streams, [pubkey |-> R, state |-> "open"])
            /\ sessions' = MapSet(sessions, Len(streams) + 1, newSession(R))
            /\ peers' = MapSet(peers, R, Len(streams) + 1)
            /\ surfaced' = <<Event("peer:connected", R)>>
  /\ outcome' = NoOutcome
  /\ UNCHANGED <<whitelist, autoAcceptFrom, pendingIntroductions, nodeCalls, handling, stopped,
                 cvars, svars, ivars>>

\* admission that stores the new session over the one it has
handleConnection_replaces(R) ==
  /\ ~stopped /\ Len(streams) < MaxStreams
  /\ IF R \notin whitelist
       THEN /\ streams' = Append(streams, [pubkey |-> R, state |-> "destroyed"])
            /\ surfaced' = <<Event("peer:rejected", R)>>
            /\ UNCHANGED <<sessions, peers>>
       ELSE /\ streams' = Append(streams, [pubkey |-> R, state |-> "open"])
            /\ sessions' = MapSet(sessions, Len(streams) + 1, newSession(R))
            /\ peers' = MapSet(peers, R, Len(streams) + 1)
            /\ surfaced' = <<Event("peer:connected", R)>>
  /\ outcome' = NoOutcome
  /\ UNCHANGED <<whitelist, autoAcceptFrom, pendingIntroductions, nodeCalls, handling, stopped,
                 cvars, svars, ivars>>

\* admission of a handshaked stream whose verified remote pubkey is R
handleConnection(R) ==
  /\ ~stopped /\ Len(streams) < MaxStreams
  /\ IF R \notin whitelist
       THEN /\ streams' = Append(streams, [pubkey |-> R, state |-> "destroyed"])
            /\ surfaced' = <<Event("peer:rejected", R)>>
            /\ UNCHANGED <<sessions, peers>>
     ELSE IF R \in DOMAIN peers
       THEN /\ streams' = Append(streams, [pubkey |-> R, state |-> "destroyed"])
            /\ surfaced' = <<>>
            /\ UNCHANGED <<sessions, peers>>
     ELSE /\ streams' = Append(streams, [pubkey |-> R, state |-> "open"])
          /\ sessions' = MapSet(sessions, Len(streams) + 1, newSession(R))
          /\ peers' = MapSet(peers, R, Len(streams) + 1)
          /\ surfaced' = <<Event("peer:connected", R)>>
  /\ outcome' = NoOutcome
  /\ UNCHANGED <<whitelist, autoAcceptFrom, pendingIntroductions, nodeCalls, handling, stopped,
                 cvars, svars, ivars>>

\* a close that forgets the session and keeps what its peer had introduced
PeerClosed_keepsPending(s) ==
  /\ s \in ActiveSessions
  /\ streams' = [streams EXCEPT ![s].state = "closed"]
  /\ sessions' = [sessions EXCEPT ![s] = [@ EXCEPT !.online = FALSE, !.pendingRequests = {}]]
  /\ nodeCalls' = Offline(nodeCalls, sessions[s].pendingRequests)
  /\ peers' = IF MapGet(peers, sessions[s].pubkey) = s
                THEN MapDelete(peers, sessions[s].pubkey) ELSE peers
  /\ surfaced' = <<Event("peer:disconnected", sessions[s].pubkey)>>
  /\ outcome' = NoOutcome
  /\ UNCHANGED <<whitelist, autoAcceptFrom, pendingIntroductions, handling, stopped, cvars,
                 svars, ivars>>

\* the stream of session s closes: handleDisconnect of the session, then the
\* node forgets the session and what its peer had introduced
PeerClosed(s) ==
  /\ s \in ActiveSessions
  /\ streams' = [streams EXCEPT ![s].state = "closed"]
  /\ sessions' = [sessions EXCEPT ![s] = [@ EXCEPT !.online = FALSE, !.pendingRequests = {}]]
  /\ nodeCalls' = Offline(nodeCalls, sessions[s].pendingRequests)
  /\ peers' = IF MapGet(peers, sessions[s].pubkey) = s
                THEN MapDelete(peers, sessions[s].pubkey) ELSE peers
  /\ pendingIntroductions' =
       [P \in {Q \in DOMAIN pendingIntroductions :
                 pendingIntroductions[Q].introducer # sessions[s].pubkey}
          |-> pendingIntroductions[P]]
  /\ surfaced' = <<Event("peer:disconnected", sessions[s].pubkey)>>
  /\ outcome' = NoOutcome
  /\ UNCHANGED <<whitelist, autoAcceptFrom, handling, stopped, cvars, svars, ivars>>

\* node.send(R, message)
NodeSend(R, message) ==
  /\ IF R \notin DOMAIN peers
       THEN /\ outcome' = [call |-> "send", error |-> PeerOfflineError]
            /\ UNCHANGED sessions
       ELSE LET sent == send(sessions[peers[R]], message)
            IN  /\ outcome' = [call |-> "send", error |-> sent.error]
                /\ sessions' = [sessions EXCEPT ![peers[R]] = sent.session]
  /\ surfaced' = <<>>
  /\ UNCHANGED <<whitelist, autoAcceptFrom, streams, peers, pendingIntroductions, nodeCalls,
                 handling, stopped, cvars, svars, ivars>>

\* node.request(R, method, ...): the session registers the request and
\* writes its frame; the promise is kept in nodeCalls
NodeRequest(R, method) ==
  /\ Len(nodeCalls) < MaxCalls
  /\ IF R \notin DOMAIN peers
       THEN /\ nodeCalls' = Append(nodeCalls, [peer |-> R, state |-> "rejected",
                                              error |-> PeerOfflineError])
            /\ UNCHANGED sessions
       ELSE LET n == Len(nodeCalls) + 1
            IN  /\ nodeCalls' = Append(nodeCalls, [peer |-> R, state |-> "pending",
                                                   error |-> NoError])
                /\ sessions' =
                     [sessions EXCEPT ![peers[R]] =
                        [@ EXCEPT !.pendingRequests = @ \cup {n},
                                  !.written = Append(@, Outbound(REQUEST,
                                                [id |-> n, method |-> method]))]]
  /\ surfaced' = <<>>
  /\ outcome' = NoOutcome
  /\ UNCHANGED <<whitelist, autoAcceptFrom, streams, peers, pendingIntroductions, handling,
                 stopped, cvars, svars, ivars>>

\* a request frame arrives on session s and is dispatched: handleRequest
\* emits 'request' with the callback that leads to sendResponse, and the
\* node looks the method up in its registry
errorResponse(id, code) == [id |-> id, error |-> [code |-> code, message |-> code]]

handleRequest(s, id, method) ==
  /\ s \in ActiveSessions
  /\ \A h \in handling : ~(h.session = s /\ h.id = id)
  /\ handling' = handling \cup
       {[session |-> s, id |-> id, method |-> method, running |-> method \in methods]}
  /\ sessions' = IF method \in methods THEN sessions
                 ELSE [sessions EXCEPT
                         ![s] = sendResponse(@, errorResponse(id, "method-not-found"))]
  /\ surfaced' = <<>>
  /\ outcome' = NoOutcome
  /\ UNCHANGED <<whitelist, autoAcceptFrom, streams, peers, pendingIntroductions, nodeCalls,
                 stopped, cvars, svars, ivars>>

\* the handler of request h completes, with a result or by raising
handlerDone(h, raised) ==
  /\ h \in handling /\ h.running
  /\ handling' = (handling \ {h}) \cup {[h EXCEPT !.running = FALSE]}
  /\ sessions' =
       [sessions EXCEPT
          ![h.session] = sendResponse(@, IF raised THEN errorResponse(h.id, "boom")
                                         ELSE [id |-> h.id, result |-> h.method])]
  /\ surfaced' = <<>>
  /\ outcome' = NoOutcome
  /\ UNCHANGED <<whitelist, autoAcceptFrom, streams, peers, pendingIntroductions, nodeCalls,
                 stopped, cvars, svars, ivars>>

\* the validator: validateIntroduction, then cycle detection and the depth
validate(intro, I) ==
  LET checked == validateIntroduction(intro, fromHex(I), IntroMaxAge, IntroNow)
  IN  IF ~checked.valid THEN checked
      ELSE IF detectCircularTrust(intro.trustPath, hex(OurKey))
        THEN Invalid("Circular trust path")
      ELSE IF Len(intro.trustPath) > maxTrustDepth THEN Invalid("Trust path too deep")
      ELSE [valid |-> TRUE]

\* the introductions a peer can deliver: a good one, a good one that
\* declares a capability token requiring approval, and ones that are
\* expired, signed by another key, circular and too deep
NodeIntros(I) ==
  LET record(P, caps, signer, t, path) ==
        fullIntro([pubkey |-> P, alias |-> 1, capabilities |-> caps, message |-> 1,
                   introducerPubkey |-> I, timestamp |-> t, trustPath |-> path],
                  keyPair(signer))
      k == CHOOSE x \in {RemoteKey, StrangerKey} : hex(x) = I
      P == CHOOSE x \in {hex(RemoteKey), hex(StrangerKey)} : x # I
  IN  { record(P, CapsTable[1], k, IntroNow, <<I>>),
        record(P, CapsTable[2], k, IntroNow, <<I>>),
        record(P, CapsTable[1], k, IntroNow - IntroMaxAge - 1, <<I>>),
        record(P, CapsTable[1], OurKey, IntroNow, <<I>>),
        record(P, CapsTable[1], k, IntroNow, <<hex(OurKey), I>>),
        record(P, CapsTable[1], k, IntroNow, DeepPath) }

NodeKeys == {hex(RemoteKey), hex(StrangerKey)}

\* validate(intro, I) for every introduction I can deliver
Validated == [I \in NodeKeys |-> [intro \in NodeIntros(I) |-> validate(intro, I)]]

\* auto-accept eligibility of an introduction delivered by I
autoAccept(intro, I) ==
  /\ I \in autoAcceptFrom
  /\ \A i \in 1..Len(intro.capabilities.accepts) :
       intro.capabilities.accepts[i] \notin requireApprovalFor

\* handling of an introduction that whitelists the introduced key on receipt
handleIntroduce_trustOnReceipt(s, intro) ==
  /\ s \in ActiveSessions
  /\ LET I == sessions[s].pubkey
         P == intro.pubkey
     IN  IF ~Validated[I][intro].valid
           THEN /\ surfaced' = <<Event("introduction:rejected", P)>>
                /\ UNCHANGED <<whitelist, pendingIntroductions>>
         ELSE IF autoAccept(intro, I)
           THEN /\ whitelist' = whitelist \cup {P}
                /\ pendingIntroductions' = MapDelete(pendingIntroductions, P)
                /\ surfaced' = <<Event("introduction:accepted", P)>>
         ELSE /\ pendingIntroductions' = MapSet(pendingIntroductions, P, [introducer |-> I])
              /\ surfaced' = <<Event("introduction:received", P)>>
              /\ whitelist' = whitelist \cup {P}
  /\ outcome' = NoOutcome
  /\ UNCHANGED <<autoAcceptFrom, streams, sessions, peers, nodeCalls, handling, stopped,
                 cvars, svars, ivars>>

\* handling of an introduction that auto-accepts on the introducer alone
handleIntroduce_introducerOnly(s, intro) ==
  /\ s \in ActiveSessions
  /\ LET I == sessions[s].pubkey
         P == intro.pubkey
     IN  IF ~Validated[I][intro].valid
           THEN /\ surfaced' = <<Event("introduction:rejected", P)>>
                /\ UNCHANGED <<whitelist, pendingIntroductions>>
         ELSE IF I \in autoAcceptFrom
           THEN /\ whitelist' = whitelist \cup {P}
                /\ pendingIntroductions' = MapDelete(pendingIntroductions, P)
                /\ surfaced' = <<Event("introduction:accepted", P)>>
         ELSE /\ pendingIntroductions' = MapSet(pendingIntroductions, P, [introducer |-> I])
              /\ surfaced' = <<Event("introduction:received", P)>>
              /\ UNCHANGED whitelist
  /\ outcome' = NoOutcome
  /\ UNCHANGED <<autoAcceptFrom, streams, sessions, peers, nodeCalls, handling, stopped,
                 cvars, svars, ivars>>

\* an INTRODUCE frame arrives on session s, whose remote pubkey is the
\* introducer
handleIntroduce(s, intro) ==
  /\ s \in ActiveSessions
  /\ LET I == sessions[s].pubkey
         P == intro.pubkey
     IN  IF ~Validated[I][intro].valid
           THEN /\ surfaced' = <<Event("introduction:rejected", P)>>
                /\ UNCHANGED <<whitelist, pendingIntroductions>>
         ELSE IF autoAccept(intro, I)
           THEN /\ whitelist' = whitelist \cup {P}
                /\ pendingIntroductions' = MapDelete(pendingIntroductions, P)
                /\ surfaced' = <<Event("introduction:accepted", P)>>
         ELSE /\ pendingIntroductions' = MapSet(pendingIntroductions, P, [introducer |-> I])
              /\ surfaced' = <<Event("introduction:received", P)>>
              /\ UNCHANGED whitelist
  /\ outcome' = NoOutcome
  /\ UNCHANGED <<autoAcceptFrom, streams, sessions, peers, nodeCalls, handling, stopped,
                 cvars, svars, ivars>>

\* acceptIntroduction(P): the accept procedure for a pending introduction
acceptIntroduction(P) ==
  /\ P \in DOMAIN pendingIntroductions
  /\ whitelist' = whitelist \cup {P}
  /\ pendingIntroductions' = MapDelete(pendingIntroductions, P)
  /\ surfaced' = <<Event("introduction:accepted", P)>>
  /\ outcome' = NoOutcome
  /\ UNCHANGED <<autoAcceptFrom, streams, sessions, peers, nodeCalls, handling, stopped,
                 cvars, svars, ivars>>

rejectIntroduction(P) ==
  /\ P \in DOMAIN pendingIntroductions
  /\ pendingIntroductions' = MapDelete(pendingIntroductions, P)
  /\ surfaced' = <<Event("introduction:rejected", P)>>
  /\ outcome' = NoOutcome
  /\ UNCHANGED <<whitelist, autoAcceptFrom, streams, sessions, peers, nodeCalls, handling,
                 stopped, cvars, svars, ivars>>

\* setTrust(P, true) and revokeTrust(P, false)
setTrust(P) ==
  /\ P \notin autoAcceptFrom
  /\ autoAcceptFrom' = autoAcceptFrom \cup {P}
  /\ surfaced' = <<>>
  /\ outcome' = NoOutcome
  /\ UNCHANGED <<whitelist, streams, sessions, peers, pendingIntroductions, nodeCalls,
                 handling, stopped, cvars, svars, ivars>>

revokeTrust(P) ==
  /\ P \in whitelist \cup autoAcceptFrom
  /\ autoAcceptFrom' = autoAcceptFrom \ {P}
  /\ whitelist' = whitelist \ {P}
  /\ surfaced' = <<>>
  /\ outcome' = NoOutcome
  /\ UNCHANGED <<streams, sessions, peers, pendingIntroductions, nodeCalls, handling,
                 stopped, cvars, svars, ivars>>

\* a stop() that only leaves the swarm
stop_leaveSwarmOnly ==
  /\ stopped' = TRUE
  /\ surfaced' = <<>>
  /\ outcome' = NoOutcome
  /\ UNCHANGED <<whitelist, autoAcceptFrom, streams, sessions, peers, pendingIntroductions,
                 nodeCalls, handling, cvars, svars, ivars>>

\* stop(): destroy every session, then leave the swarm
stop ==
  LET held == {peers[R] : R \in DOMAIN peers}
  IN  /\ stopped' = TRUE
      /\ sessions' = [s \in DOMAIN sessions |->
                        IF s \in held
                          THEN [sessions[s] EXCEPT !.destroyed = TRUE, !.pendingRequests = {}]
                          ELSE sessions[s]]
      /\ streams' = [s \in DOMAIN streams |->
                       IF s \in held THEN [streams[s] EXCEPT !.state = "destroyed"]
                       ELSE streams[s]]
      /\ nodeCalls' = Offline(nodeCalls, UNION {sessions[s].pendingRequests : s \in held})
      /\ peers' = EmptyMap
      /\ pendingIntroductions' = EmptyMap
      /\ surfaced' = <<>>
      /\ outcome' = NoOutcome
      /\ UNCHANGED <<whitelist, autoAcceptFrom, handling, cvars, svars, ivars>>

\* admission, introductions, trust and stop
NodeNext ==
  \/ \E R \in NodeKeys : handleConnection(R)
  \/ \E s \in DOMAIN sessions : PeerClosed(s)
  \/ \E R \in NodeKeys : NodeRequest(R, "ping")
  \/ \E s \in DOMAIN sessions : \E intro \in DOMAIN Validated[sessions[s].pubkey] :
       handleIntroduce(s, intro)
  \/ \E P \in NodeKeys : acceptIntroduction(P)
  \/ \E P \in NodeKeys : rejectIntroduction(P)
  \/ \E P \in {hex(RemoteKey)} : setTrust(P)
  \/ \E P \in {hex(RemoteKey)} : revokeTrust(P)
  \/ stop

\* the calls and requests that pass through the sessions of the node
NodeRpcNext ==
  \/ \E R \in {hex(RemoteKey)} : handleConnection(R)
  \/ \E s \in DOMAIN sessions : PeerClosed(s)
  \/ \E R \in NodeKeys : NodeSend(R, [type |-> EVENT, payload |-> [event |-> 1]])
  \/ \E s \in DOMAIN sessions, method \in {"ping", "status"} : handleRequest(s, 1, method)
  \/ \E h \in handling, raised \in BOOLEAN : handlerDone(h, raised)
  \/ stop

(***************************************************************************)
(* specifications                                                          *)
(***************************************************************************)
\* the session as its constructor leaves it, the capabilities frame written
Init == CodecInit /\ SessionInit(TRUE) /\ IntroInit /\ NodeInit

\* the peer session on a transport that takes every write
Next ==
  \/ Tick
  \/ \E wire \in Inbound : HandleData(wire)
  \/ \E method \in {"ping"}, params \in {0}, timeout \in RequestTimeouts,
        canContinue \in Accepting :
       RequestCall(method, params, timeout, canContinue)
  \/ \E n \in 1..Len(calls) : RequestTimer(n)
  \/ \E canContinue \in Accepting : HeartbeatTick(canContinue)
  \/ LivenessTimeout
  \/ Destroy
  \/ StreamClose
  \/ StreamError

Spec == Init /\ [][Next]_vars

\* the peer session on a transport that may refuse writes; the remote peer
\* sends responses only and the stream stays up until the session ends it
InitBackpressure ==
  CodecInit /\ IntroInit /\ NodeInit /\ \E canContinue \in BOOLEAN : SessionInit(canContinue)

ResponseWires == {w \in Inbound : w.label = "response"}

NextBackpressure ==
  \/ Tick
  \/ \E wire \in ResponseWires : HandleData(wire)
  \/ \E method \in {"ping"}, params \in {0}, timeout \in LongTimeouts,
        canContinue \in CanContinue :
       RequestCall(method, params, timeout, canContinue)
  \/ \E n \in 1..Len(calls) : RequestTimer(n)
  \/ \E canContinue \in CanContinue : HeartbeatTick(canContinue)
  \/ LivenessTimeout
  \/ Destroy
  \/ \E count \in 0..Len(writeQueue), blocked \in BOOLEAN : Drain(count, blocked)
  \/ CheckDrain
  \/ \E i \in 1..Len(parked) : WriteTimeout(i)

SpecBackpressure == InitBackpressure /\ [][NextBackpressure]_vars

\* the event loop runs a timer that is due
SpecLive == Init /\ [][Next]_vars /\ WF_vars(LivenessTimeout)

\* the peer session on a transport that may refuse writes and whose stream
\* may fail or close at any time; the clock advances and the event loop runs
\* every timer that is due
NextTeardown ==
  \/ NextBackpressure
  \/ StreamClose
  \/ StreamError

\* the step of HeartbeatTick, as it shows on the interval timer
HeartbeatFires ==
  /\ heartbeatTimer # NoTimer
  /\ now >= heartbeatTimer
  /\ heartbeatTimer' = now + heartbeatInterval

SpecTeardown ==
  /\ InitBackpressure /\ [][NextTeardown]_vars
  /\ WF_vars(Tick)
  /\ WF_vars(\E n \in 1..Len(calls) : RequestTimer(n))
  /\ WF_heartbeatTimer(HeartbeatFires)
  /\ WF_vars(LivenessTimeout)
  /\ WF_vars(\E i \in 1..Len(parked) : WriteTimeout(i))

\* the codec harness
SpecCodec == Init /\ [][CodecNext]_vars

\* the introduction harness
SpecIntro == Init /\ [][IntroNext]_vars

\* the node
SpecNode == Init /\ [][NodeNext]_vars

\* the node's calls and requests; every handler the registry started
\* completes
SpecNodeRpc ==
  Init /\ [][NodeRpcNext]_vars
    /\ WF_vars(\E h \in handling, raised \in BOOLEAN : handlerDone(h, raised))

(***************************************************************************)
(* Claims about the codec, checked under SpecCodec.                        *)
(***************************************************************************)
\* the buffer the receiver parsed is the one serializeFrame produced
Untouched == cEdits = NoEdits

\* C1: for every frame F produced by createFrame, deserializeFrame(
\* serializeFrame(F)) returns a frame equal to F in every field, and
\* verifyFrame(F) returns true.
C1_RoundTrip ==
  /\ (cPhase \in {"parsed", "verified"} /\ Untouched) =>
       (cParsed.ok /\ cParsed.frame = cFrame)
  /\ (cPhase = "verified" /\ Untouched) => cVerdict.value = TRUE
  /\ (cPhase = "verifiedObject" /\ Untouched) => cVerdict.value = TRUE

C3_Deserialize ==
  cPhase \in {"parsed", "verified"} =>
    IF \/ Len(cBuf) < 116
       \/ readUInt32BE(cBuf, 0) # Len(cBuf)
       \/ readUInt8(cBuf, 4) # 1
      THEN ~cParsed.ok /\ cParsed.error = "ProtocolError"
      ELSE cParsed.ok /\ Len(cParsed.frame.payload) = cParsed.frame.length - 116

(***************************************************************************)
(* Claims about the peer session.                                          *)
(***************************************************************************)
\* the wires that carry a RESPONSE of the remote peer
RemoteResponses == {w \in Inbound : w.label \in {"response", "responseError"}}

\* the calls of request() made so far
Calls == 1..Len(calls)

\* C4: an inbound frame reaches handleFrame only if it parsed, its signature
\* verified and its sender is the session's remote public key; a frame
\* signed by another key, or altered after it was signed, is never
\* dispatched.
C4_DispatchOnlyAuthentic ==
  [][\A w \in Inbound :
       (HandleData(w) /\ handleData(w.rx).dispatched) =>
         /\ w.rx.parsed /\ w.rx.verified /\ w.rx.senderPubkeyHex = pubkey
         /\ w.signer = RemoteKey /\ w.intact]_vars

\* the remote peer's capabilities were taken in, and a stranger's frame has
\* just been refused
C4_Witness ==
  /\ capabilities = CapsTable[2]
  /\ emitted = ErrorEvent("ProtocolError: Sender mismatch")

C6_OnlyPending ==
  /\ \A id \in DOMAIN pendingRequests :
       /\ pendingRequests[id] \in Calls
       /\ calls[pendingRequests[id]].id = id
       /\ calls[pendingRequests[id]].state = "pending"
       /\ calls[pendingRequests[id]].timer # NoTimer
  /\ \A n \in Calls : calls[n].state # "pending" => calls[n].id \notin DOMAIN pendingRequests

\* the first request was resolved by its response and has left the map; the
\* second is pending and is the map's only entry
C6_Witness ==
  /\ Len(calls) = 2
  /\ calls[1].state = "resolved"
  /\ calls[2].state = "pending"
  /\ DOMAIN pendingRequests = {calls[2].id}

\* C7: the ids request() allocates on one session are pairwise distinct, so
\* every pending call has an entry of its own: registering never overwrites
\* another pending entry.
C7_DistinctIds ==
  /\ \A n, m \in Calls : n # m => calls[n].id # calls[m].id
  /\ \A n \in Calls :
       calls[n].state = "pending" =>
         (calls[n].id \in DOMAIN pendingRequests /\ pendingRequests[calls[n].id] = n)
  /\ Cardinality(DOMAIN pendingRequests) =
       Cardinality({n \in Calls : calls[n].state = "pending"})

\* two requests made at the same Date.now() are pending together
C7_Witness ==
  /\ Len(calls) = 2
  /\ calls[1].state = "pending" /\ calls[2].state = "pending"
  /\ calls[1].id = FormatId(0, 1) /\ calls[2].id = FormatId(0, 2)

\* C8: whatever the order of the responses, a RESPONSE with a pending id
\* completes the call of that id, with the result or the error message it
\* carries, removes that entry and touches no other call; a RESPONSE whose
\* id is not pending changes no call and no entry.
C8_ResponseById ==
  [][\A w \in RemoteResponses :
       HandleData(w) =>
         IF w.id \in DOMAIN pendingRequests
           THEN LET n == pendingRequests[w.id]
                IN  /\ calls[n].id = w.id
                    /\ IF w.label = "response"
                         THEN /\ calls'[n].state = "resolved"
                              /\ calls'[n].value = ResultFor(w.id)
                         ELSE /\ calls'[n].state = "rejected"
                              /\ calls'[n].error = AppError("boom")
                    /\ \A m \in Calls \ {n} : calls'[m] = calls[m]
                    /\ pendingRequests' = MapDelete(pendingRequests, w.id)
           ELSE calls' = calls /\ pendingRequests' = pendingRequests]_vars

\* the second request was answered first, with its own result
C8_Witness ==
  /\ Len(calls) = 2
  /\ calls[1].state = "pending"
  /\ calls[2].state = "resolved"
  /\ calls[2].value = ResultFor(calls[2].id)
  /\ calls[2].value # ResultFor(calls[1].id)

\* C9: the deadline of a request that is still pending removes its entry and
\* fails its caller with RequestTimeoutError, leaving the other calls, the
\* other entries, the flags, the stream and the session's timers alone; a
\* response that comes for it afterwards is dropped without an event.
C9_Timeout ==
  [][/\ \A n \in Calls :
          RequestTimer(n) =>
            /\ calls[n].state = "pending"
            /\ calls'[n].state = "rejected"
            /\ calls'[n].error = RequestTimeoutError
            /\ pendingRequests' = MapDelete(pendingRequests, calls[n].id)
            /\ \A m \in Calls \ {n} : calls'[m] = calls[m]
            /\ UNCHANGED <<online, destroyed, streamState, heartbeatTimer,
                           heartbeatTimeoutTimer, capabilities>>
     /\ \A w \in RemoteResponses :
          (HandleData(w) /\ \E n \in Calls :
                              calls[n].id = w.id /\ calls[n].error = RequestTimeoutError) =>
            /\ calls' = calls
            /\ pendingRequests' = pendingRequests
            /\ emitted' = <<>>]_vars

\* the first request has timed out, the second is still pending, and the
\* session is up
C9_Witness ==
  /\ Len(calls) = 2
  /\ calls[1].error = RequestTimeoutError
  /\ calls[1].id \notin DOMAIN pendingRequests
  /\ calls[2].state = "pending"
  /\ calls[2].id \in DOMAIN pendingRequests
  /\ ~destroyed /\ online /\ streamState = "open"

\* C10: when request() hands its REQUEST frame to the write path, the entry
\* of its id is in pendingRequests with the deadline timer armed; when the
\* write fails, at once because the session is destroyed or later by the
\* backpressure timeout, the entry is removed, the timer is cancelled and a
\* caller that is still waiting is failed with the write's error.
C10_RegisterThenWrite ==
  [][/\ requestCounter' # requestCounter =>
          LET n == Len(calls')
              c == calls'[n]
          IN  IF destroyed
                THEN /\ c.write = "PeerOfflineError"
                     /\ c.state = "rejected" /\ c.error = PeerOfflineError
                     /\ c.timer = NoTimer
                     /\ c.id \notin DOMAIN pendingRequests'
                     /\ written' = written
                ELSE /\ c.state = "pending"
                     /\ c.timer > now
                     /\ c.id \in DOMAIN pendingRequests' /\ pendingRequests'[c.id] = n
                     /\ Len(written') = Len(written) + 1
                     /\ Receive(written'[Len(written')]).type = REQUEST
                     /\ Receive(written'[Len(written')]).payload.value.id = c.id
     /\ \A i \in 1..Len(parked) :
          (WriteTimeout(i) /\ parked[i].who # 0) =>
            LET n == parked[i].who
            IN  /\ calls'[n].write = "timeout"
                /\ calls'[n].timer = NoTimer
                /\ calls[n].id \notin DOMAIN pendingRequests'
                /\ calls[n].state = "pending" =>
                     (calls'[n].state = "rejected" /\ calls'[n].error = BackpressureError)]_vars

\* the write of a request timed out under backpressure and failed its caller
C10_Witness ==
  \E n \in Calls :
    /\ calls[n].write = "timeout"
    /\ calls[n].error = BackpressureError
    /\ calls[n].timer = NoTimer
    /\ calls[n].id \notin DOMAIN pendingRequests

(***************************************************************************)
(* Claims about the end of a session.                                      *)
(***************************************************************************)
\* C11: destroy() on a session that is not yet destroyed sets destroyed,
\* cancels the heartbeat timer and the liveness timer, rejects every pending
\* request with PeerOfflineError with its deadline timer cleared, leaves
\* pendingRequests empty and destroys the stream, once.
C11_Destroy ==
  [][(Destroy /\ ~destroyed) =>
       /\ destroyed'
       /\ heartbeatTimer' = NoTimer /\ heartbeatTimeoutTimer' = NoTimer
       /\ \A n \in Calls :
            IF calls[n].state = "pending"
              THEN /\ calls'[n].state = "rejected"
                   /\ calls'[n].error = PeerOfflineError
                   /\ calls'[n].timer = NoTimer
              ELSE calls'[n] = calls[n]
       /\ pendingRequests' = EmptyMap
       /\ streamState' \in {"destroyed", "closed"}
       /\ streamDestroys' = streamDestroys + 1]_vars

\* two requests were pending when destroy() was called on the open, online
\* session, before any timer could fire
C11_Witness ==
  /\ now = 0 /\ online /\ destroyed
  /\ streamState = "destroyed" /\ streamDestroys = 1
  /\ heartbeatTimer = NoTimer /\ heartbeatTimeoutTimer = NoTimer
  /\ Len(calls) = 2
  /\ \A n \in Calls : calls[n].error = PeerOfflineError /\ calls[n].timer = NoTimer
  /\ pendingRequests = EmptyMap

\* C12: destroy() on a destroyed session changes nothing: no field of the
\* session, no call, no timer; the stream is not destroyed a second time and
\* no event is emitted.
C12_DestroyIdempotent ==
  [][(Destroy /\ destroyed) =>
       /\ UNCHANGED <<now, streamState, streamDestroys, needDrain, stalls, written,
                      capabilities, connectedAt, lastSeen, online, destroyed,
                      pendingRequests, requestCounter, calls, heartbeatTimer,
                      heartbeatTimeoutTimer, writeQueue, writeDraining, parked>>
       /\ emitted' = <<>>]_vars

\* destroy() has been called after the liveness timer had destroyed the
\* session: the timeout event is no longer the last step's, the clock has not
\* moved, and the stream was destroyed once
C12_Witness ==
  /\ destroyed /\ streamDestroys = 1
  /\ now = heartbeatTimeout /\ lastSeen = 0
  /\ emitted = <<>>
  /\ \E n \in Calls : calls[n].error = PeerOfflineError

\* C13: a stream 'close' or 'error' leaves the session as destroy() does:
\* destroyed, both timers cancelled, every pending request rejected with
\* PeerOfflineError, pendingRequests empty; and a request() made after it
\* fails with PeerOfflineError.
C13_CloseLikeDestroy ==
  [][/\ (StreamClose \/ StreamError) =>
          /\ destroyed'
          /\ heartbeatTimer' = NoTimer /\ heartbeatTimeoutTimer' = NoTimer
          /\ \A n \in Calls :
               /\ calls'[n].state # "pending"
               /\ calls[n].state = "pending" => calls'[n].error = PeerOfflineError
          /\ pendingRequests' = EmptyMap
     /\ (requestCounter' # requestCounter /\ streamState \in {"closed", "errored"}) =>
          /\ calls'[Len(calls')].state = "rejected"
          /\ calls'[Len(calls')].error = PeerOfflineError
          /\ written' = written]_vars

(***************************************************************************)
(* Claims about liveness detection.                                        *)
(***************************************************************************)
\* the liveness timer is armed and its deadline has come
Silent == heartbeatTimeoutTimer # NoTimer /\ now >= heartbeatTimeoutTimer

\* C14: a session that is up has its liveness timer armed for lastSeen +
\* heartbeatTimeout and the clock never passes that deadline; when no data
\* has come for heartbeatTimeout the timer fires, unless data, destroy() or
\* the end of the stream comes first; its firing emits 'timeout', destroys
\* the session and rejects every pending request with PeerOfflineError.
C14_LivenessTimeout ==
  /\ []((~destroyed /\ online) =>
          /\ heartbeatTimeoutTimer = lastSeen + heartbeatTimeout
          /\ now <= heartbeatTimeoutTimer)
  /\ [][LivenessTimeout =>
          /\ ~destroyed /\ now = lastSeen + heartbeatTimeout
          /\ emitted' = <<Event("timeout", "")>>
          /\ destroyed' /\ streamState' \in {"destroyed", "closed"}
          /\ heartbeatTimer' = NoTimer /\ heartbeatTimeoutTimer' = NoTimer
          /\ \A n \in Calls :
               IF calls[n].state = "pending"
                 THEN calls'[n].state = "rejected" /\ calls'[n].error = PeerOfflineError
                 ELSE calls'[n] = calls[n]
          /\ pendingRequests' = EmptyMap]_vars
  /\ (Silent ~> (destroyed \/ ~online \/ now < heartbeatTimeoutTimer))

\* the timer has fired after heartbeatTimeout without data and has failed a
\* request that was pending
C14_Witness ==
  /\ emitted = <<Event("timeout", "")>>
  /\ now = lastSeen + heartbeatTimeout
  /\ destroyed /\ heartbeatTimeoutTimer = NoTimer
  /\ pendingRequests = EmptyMap
  /\ \E n \in Calls : calls[n].error = PeerOfflineError /\ calls[n].at > lastSeen

\* the frames that parse, verify and carry the remote peer's key
Authentic == {w \in Inbound : w.rx.parsed /\ w.rx.verified /\ w.rx.senderPubkeyHex = pubkey}

\* C15: every inbound frame that parses, verifies and carries the remote
\* peer's key sets lastSeen to the current time and rearms the liveness timer
\* to a full heartbeatTimeout from now, whatever its type: heartbeat,
\* capabilities, request, response, event or introduce.
C15_FrameRearmsLiveness ==
  [][\A w \in Authentic :
       HandleData(w) =>
         /\ lastSeen' = now
         /\ heartbeatTimeoutTimer' = now + heartbeatTimeout]_vars

\* an introduce frame that came after the clock had moved has pushed the
\* deadline to a full heartbeatTimeout from its arrival; all six kinds of
\* frame are among those delivered
C15_Witness ==
  /\ emitted = <<Event("introduction", "")>>
  /\ now > 0 /\ lastSeen = now
  /\ heartbeatTimeoutTimer = now + heartbeatTimeout
  /\ {"heartbeat", "capabilities", "request", "response", "event", "introduce"}
       \subseteq {w.label : w \in Authentic}

(***************************************************************************)
(* Claims about the write path, checked under SpecBackpressure.            *)
(***************************************************************************)
\* a step in which request() or the heartbeat interval called writeFrame on
\* a session that is not destroyed
WriteFrameCalled ==
  /\ ~destroyed
  /\ \/ requestCounter' # requestCounter
     \/ heartbeatTimer' # heartbeatTimer /\ heartbeatTimer' # NoTimer

\* C16: the buffer of a write the transport refuses is put on the write
\* queue, and while the transport owes its 'drain' every further writeFrame
\* puts its buffer on the queue behind it and hands nothing to stream.write.
C16_QueueBehindRefused ==
  [][/\ (WriteFrameCalled /\ ~needDrain /\ needDrain') =>
          writeQueue' = Append(writeQueue, written'[Len(written')])
     /\ (WriteFrameCalled /\ needDrain) =>
          /\ Len(writeQueue') = Len(writeQueue) + 1
          /\ written' = written]_vars

\* where a buffer was first handed to stream.write: writeFrame hands its
\* buffer over before anything else, so the calls of writeFrame are ordered
\* as the first appearances of their buffers
FirstAt(buffer) ==
  CHOOSE i \in 1..Len(written) :
    written[i] = buffer /\ \A j \in 1..(i - 1) : written[j] # buffer

\* C17: the buffers handed to stream.write come in the order of the
\* writeFrame calls: none is handed over after the buffer of a later call.
C17_InOrder ==
  \A i, j \in 1..Len(written) :
    i < j => FirstAt(written[i]) <= FirstAt(written[j])

\* C18: no buffer is handed to stream.write more than once.
C18_AtMostOnce ==
  \A i, j \in 1..Len(written) : i # j => written[i] # written[j]

\* the REQUEST frame of call n is on the write queue
QueuedRequest(n) ==
  \E k \in 1..Len(writeQueue) :
    LET rx == Receive(writeQueue[k])
    IN  rx.type = REQUEST /\ rx.payload.value.id = calls[n].id

\* C19: a request whose frame has been on the write queue for more than
\* 30 s has had its write failed by the backpressure timeout; and a request
\* whose write failed so has no pending entry and was rejected with the
\* backpressure error.
C19_BackpressureTimeout ==
  \A n \in Calls :
    /\ (QueuedRequest(n) /\ now > calls[n].at + WRITE_TIMEOUT) => calls[n].write = "timeout"
    /\ calls[n].write = "timeout" =>
         /\ calls[n].id \notin DOMAIN pendingRequests
         /\ calls[n].state = "rejected"
         /\ calls[n].error = BackpressureError

\* C20: the writeFrame of a request whose write the transport refused stays
\* unsettled, and it is settled only by the backpressure timeout or once the
\* drain handler has left writeDraining false.
C20_ParkedUntilDrain ==
  [][/\ (requestCounter' # requestCounter /\ ~destroyed
           /\ Len(writeQueue') > Len(writeQueue)) =>
          calls'[Len(calls')].write = "parked"
     /\ \A n \in Calls :
          (calls[n].write = "parked" /\ calls'[n].write # "parked") =>
            (calls'[n].write = "timeout" \/ ~writeDraining)]_vars

(***************************************************************************)
(* Claims about the control frames of a session.                           *)
(***************************************************************************)
\* what the transport was handed, decoded as the remote end decodes it
Sent(i) == Receive(written[i])

\* C21: the first frame a newly constructed session hands to the transport
\* is a CONTROL frame of kind "capabilities", signed with our key, carrying
\* agent "aronia" and version "0.1.0"; whatever else the session writes
\* (heartbeats, requests) comes after it.
C21_CapabilitiesFirst ==
  /\ Len(written) >= 1
  /\ Sent(1).parsed /\ Sent(1).verified
  /\ Sent(1).senderPubkeyHex = toHex(publicKeyOf(OurKey))
  /\ Sent(1).type = CONTROL
  /\ Sent(1).payload.ok
  /\ Sent(1).payload.value.type = "capabilities"
  /\ Sent(1).payload.value.data.agent = "aronia"
  /\ Sent(1).payload.value.data.version = "0.1.0"

\* the session has since written a request and a heartbeat, both behind the
\* capabilities frame
C21_Witness ==
  /\ \E i \in 2..Len(written) : Sent(i).type = REQUEST
  /\ \E i \in 2..Len(written) :
       Sent(i).type = CONTROL /\ Sent(i).payload.value.type = "heartbeat"

\* the capabilities and heartbeat frames the remote peer sends
ControlWires(kind) == {w \in Authentic : w.label = kind}

HasDuplicate(path) == \E i, j \in 1..Len(path) : i < j /\ path[i] = path[j]

\* C23: for a record that names introducer K and is delivered by K,
\* validateIntroduction(record, K.pub, maxAge) returns valid if and only if
\* the record's age is within [0, maxAge], its signature over the canonical
\* body verifies under K, its trustPath has no cycle (no duplicate entry,
\* not the validating node's own key) and its trustPath is no longer than
\* maxTrustDepth; a record older than maxAge is rejected as expired.
C23_ValidIff ==
  (iResult.done /\ iIntro.introducerPubkey = hex(iArgs.introducer)) =>
    LET age == iArgs.dateNow - iIntro.timestamp
    IN  /\ iResult.result.valid <=>
             /\ age >= 0 /\ age <= iArgs.maxAge
             /\ verify(JSONstringify(IntroPayload(iIntro)), iIntro.signature,
                       publicKeyOf(iArgs.introducer))
             /\ ~HasDuplicate(iIntro.trustPath)
             /\ \A i \in 1..Len(iIntro.trustPath) : iIntro.trustPath[i] # hex(OurKey)
             /\ Len(iIntro.trustPath) <= maxTrustDepth
        /\ age > iArgs.maxAge =>
             ~iResult.result.valid /\ iResult.result.error = "Introduction expired"

\* C24: detectCircularTrust(trustPath, ownPubkey) returns true exactly when
\* trustPath contains ownPubkey or contains some entry more than once; for
\* every path of pairwise-distinct entries without ownPubkey, the empty path
\* included, it returns false.
C24_CircularExactly ==
  iCircular.done =>
    (iCircular.value <=>
       \/ HasDuplicate(iIntro.trustPath)
       \/ \E i \in 1..Len(iIntro.trustPath) : iIntro.trustPath[i] = iCircular.ownPubkey)

\* a path whose first entry comes back after another one, without the own
\* key, was reported as circular
C24_Witness ==
  /\ iCircular.done /\ iCircular.value
  /\ iCircular.ownPubkey = hex(OurKey)
  /\ iIntro.trustPath = <<hex(RemoteKey), hex(StrangerKey), hex(RemoteKey)>>

(***************************************************************************)
(* Claims about the node's calls and requests, checked under SpecNodeRpc.  *)
(***************************************************************************)
\* C25: send(R, message) fails with PeerOfflineError when R has no active
\* session; when R has an active session it hands exactly one frame of the
\* message's type, carrying the message's payload, to that session's
\* transport and completes successfully.
C25_Send ==
  [][\A R \in NodeKeys :
       LET message == [type |-> EVENT, payload |-> [event |-> 1]]
       IN  NodeSend(R, message) =>
             IF R \notin DOMAIN peers
               THEN outcome'.error = PeerOfflineError /\ sessions' = sessions
               ELSE /\ outcome'.error = NoError
                    /\ sessions'[peers[R]].written =
                         Append(sessions[peers[R]].written,
                                Outbound(message.type, message.payload))]_vars

\* the requests that can be dispatched, and the responses a session wrote
InboundRequests ==
  {[session |-> s, id |-> 1, method |-> m] : s \in 1..MaxStreams, m \in {"ping", "status"}}

Dispatched(q) ==
  \E h \in handling : h.session = q.session /\ h.id = q.id /\ h.method = q.method

ResponsesTo(s, id) ==
  {i \in 1..Len(sessions[s].written) :
     sessions[s].written[i].type = RESPONSE /\ sessions[s].written[i].payload.id = id}

\* no session has written two responses with the same id, the response to
\* an unregistered method carries the error code "method-not-found", and a
\* handler that completes on a session that is not destroyed is answered
\* with its result, or with an error if it raised
ResponseRules ==
  /\ [](\A s \in DOMAIN sessions : Cardinality(ResponsesTo(s, 1)) <= 1)
  /\ [][\A s \in DOMAIN sessions :
          handleRequest(s, 1, "status") =>
            /\ Cardinality(ResponsesTo(s, 1)') = 1
            /\ sessions'[s].written[Len(sessions'[s].written)].payload.error.code
                 = "method-not-found"]_vars
  /\ [][\A h \in handling : \A raised \in BOOLEAN :
          (handlerDone(h, raised) /\ ~sessions[h.session].destroyed) =>
            LET response == sessions'[h.session].written[Len(sessions'[h.session].written)]
            IN  /\ ResponsesTo(h.session, h.id) = {}
                /\ response.type = RESPONSE /\ response.payload.id = h.id
                /\ IF raised THEN "error" \in DOMAIN response.payload
                             ELSE "result" \in DOMAIN response.payload]_vars

LastStream == streams[Len(streams)]

C30_WhitelistGrowth ==
  /\ whitelist = configuredWhitelist
  /\ [][\A P \in whitelist' \ whitelist :
          surfaced' = <<Event("introduction:accepted", P)>>]_vars

\* a stranger was introduced by a trusted peer, accepted, and then admitted
\* when it connected
C30_Witness ==
  /\ hex(StrangerKey) \in whitelist \ configuredWhitelist
  /\ hex(StrangerKey) \in DOMAIN peers
  /\ surfaced = <<Event("peer:connected", hex(StrangerKey))>>

(***************************************************************************)
(* Claims about inbound introductions, checked under SpecNode.             *)
(***************************************************************************)
\* the valid introductions the peer of session s can deliver
ValidIntros(s) ==
  {intro \in DOMAIN Validated[sessions[s].pubkey] : Validated[sessions[s].pubkey][intro].valid}

\* C31: a valid introduction from introducer I is auto-accepted (the
\* introduced key joins the whitelist, introduction:accepted is emitted and
\* nothing stays pending for it) exactly when I is in autoAcceptFrom and the
\* capabilities it declares share no entry with requireApprovalFor;
\* otherwise it is stored as pending under the introduced key,
\* introduction:received is emitted and the whitelist is unchanged.
C31_AutoAccept ==
  [][\A s \in DOMAIN sessions : \A intro \in ValidIntros(s) :
       handleIntroduce(s, intro) =>
         LET I == sessions[s].pubkey
             P == intro.pubkey
             accepts == {intro.capabilities.accepts[i] :
                           i \in 1..Len(intro.capabilities.accepts)}
         IN  IF I \in autoAcceptFrom /\ accepts \cap requireApprovalFor = {}
               THEN /\ whitelist' = whitelist \cup {P}
                    /\ surfaced' = <<Event("introduction:accepted", P)>>
                    /\ P \notin DOMAIN pendingIntroductions'
               ELSE /\ P \in DOMAIN pendingIntroductions'
                    /\ pendingIntroductions'[P].introducer = I
                    /\ surfaced' = <<Event("introduction:received", P)>>
                    /\ whitelist' = whitelist]_vars

\* the trusted peer is connected and the stranger it introduced has been
\* accepted: whitelisted, with nothing pending and no session yet
C31_Witness ==
  /\ hex(RemoteKey) \in autoAcceptFrom
  /\ hex(RemoteKey) \in DOMAIN peers
  /\ surfaced = <<Event("introduction:accepted", hex(StrangerKey))>>
  /\ hex(StrangerKey) \in whitelist
  /\ pendingIntroductions = EmptyMap
  /\ hex(StrangerKey) \notin DOMAIN peers

C33_InvalidFrameNoEffect ==
  [][\A w \in Inbound \ Authentic :
       HandleData(w) =>
         /\ lastSeen' = lastSeen
         /\ heartbeatTimeoutTimer' = heartbeatTimeoutTimer
         /\ capabilities' = capabilities
         /\ pendingRequests' = pendingRequests
         /\ online' = online
         /\ destroyed' = destroyed]_vars

\* the session is up: not destroyed and not disconnected
Up == ~destroyed /\ online

\* the 'disconnect' events among those the last step emitted
Disconnects == {i \in 1..Len(emitted) : emitted[i].name = "disconnect"}

\* C34: every end of a session, by the liveness timeout, destroy(), a
\* stream close or a stream error followed by a close, emits exactly one
\* 'disconnect': the step that takes the session down emits one, and no
\* other step emits any.
C34_OneDisconnect ==
  [][Cardinality(Disconnects') = IF Up /\ ~Up' THEN 1 ELSE 0]_vars

(***************************************************************************)
(* Claims about the completion of requests, checked under SpecTeardown.    *)
(***************************************************************************)
\* C35: every request() call is completed exactly once: a call that is
\* pending, with its deadline within the clock's horizon, is eventually
\* completed; a completed call never changes again; and it was completed by
\* its response, its deadline, a failed write or the end of the session.
C35_CompletedOnce ==
  /\ \A n \in 1..MaxRequests :
       (n <= Len(calls) /\ calls[n].state = "pending" /\ calls[n].timer <= MaxTime)
         ~> (n <= Len(calls) /\ calls[n].state # "pending")
  /\ [][\A n \in Calls :
          calls[n].state # "pending" =>
            /\ calls'[n].state = calls[n].state
            /\ calls'[n].value = calls[n].value
            /\ calls'[n].error = calls[n].error]_vars
  /\ [](\A n \in Calls :
          \/ calls[n].state = "pending"
          \/ calls[n].state = "resolved" /\ calls[n].value = ResultFor(calls[n].id)
          \/ /\ calls[n].state = "rejected"
             /\ calls[n].error \in {RequestTimeoutError, PeerOfflineError, BackpressureError})

\* a response completed the first call and the write timeout of its parked
\* frame then rejected it in vain; the close of the stream failed the second
C35_Witness ==
  /\ Len(calls) = 2
  /\ calls[1].state = "resolved" /\ calls[1].settles = 2 /\ calls[1].write = "timeout"
  /\ calls[2].state = "rejected" /\ calls[2].error = PeerOfflineError
  /\ streamState = "closed" /\ ~destroyed

\* C36: a request() on a session that is down, after destroy() or after a
\* stream close or error, is rejected with PeerOfflineError at once, hands
\* nothing to the transport, and leaves no entry in pendingRequests and no
\* deadline timer armed.
C36_RequestWhenDown ==
  [][(requestCounter' # requestCounter /\ ~Up) =>
       LET call == calls'[Len(calls')]
       IN  /\ call.state = "rejected"
           /\ call.error = PeerOfflineError
           /\ call.timer = NoTimer
           /\ call.id \notin DOMAIN pendingRequests'
           /\ written' = written]_vars

Handed(w, n) ==
  Cardinality({k \in 1..Len(w) :
                 LET rx == Receive(w[k])
                 IN  rx.type = REQUEST /\ rx.payload.value.id = calls[n].id})

\* C38: a parked write that the backpressure timeout failed is aborted: the
\* frame of a request whose write timed out is no longer on the write queue,
\* and it is not handed to the transport afterwards.
C38_TimedOutWriteAborted ==
  /\ [](\A n \in Calls : calls[n].write = "timeout" => ~QueuedRequest(n))
  /\ [][\A n \in Calls :
          calls[n].write = "timeout" => Handed(written', n) = Handed(written, n)]_vars

C40_DestroyedNotOnline ==
  /\ [](destroyed => ~online)
  /\ [][destroyed => destroyed']_vars

====
